---- MODULE Spec2Model ----
(***************************************************************************)
(* The resumable tree-expansion engine of AI_JTBD: HierarchyBuilder in its *)
(* multi-document form (hierarchy_builder.py, one MongoDB document per     *)
(* node) and in its single-document form (the "1mongodoc" snapshot, one    *)
(* document holding the whole nested hierarchy), run against a gateway     *)
(* that answers each prompt type with a fixed number of records, and an    *)
(* environment that may crash the process, fail a gateway call (the empty  *)
(* string) or raise an exception in a prompt/store operation.              *)
(* A second specification, StepsSpec, is the pipeline mode: process_steps   *)
(* of console_app.py and of app.py, run on one job node.  A third,         *)
(* ParseSpec, applies the response parsers to numbered-list responses.     *)
(***************************************************************************)
EXTENDS Naturals, Integers, Sequences, FiniteSets, TLC

\* ---------------------------------------------------------------- bounds
MaxRec == 2
MaxNodes == 13
MaxFaults == 1
MaxRuns == 3

\* ------------------------------------------------------------- constants
Variants == {"multi", "single"}
PromptTypes ==
  {"sectors", "subsectors", "end_users_provider", "end_users_customer", "jtbd_industry"}
ProviderGroup == "End Users - Providers"
CustomerGroup == "End Users - Customers"
NoNode == 0
NoSnap == [name |-> "none"]

VARIABLES
  variant,   \* which HierarchyBuilder is running: "multi" or "single"
  oracle,    \* the gateway: prompt type -> number of records in its answer
  pc,        \* build_hierarchy: idle, frontier, fresh, done, crashed, raised
  stack,     \* call stack of _process_node's callees (sequence of frames)
  mem,       \* the anytree in memory: node id -> node
  root,      \* self.root
  frontier,  \* unprocessed_nodes handed to process_hierarchy
  fi,        \* position of process_hierarchy's loop in frontier
  docs,      \* collection jtbd_hierarchy3 (one document per node)
  snap,      \* collection jtbd_hierarchy2: the industry's hierarchy, or NoSnap
  nextId,    \* next fresh node identity (ObjectId() / a new Node object)
  run,       \* number of build_hierarchy calls so far
  faults,    \* number of crashes, gateway failures and exceptions so far
  calls,     \* this run's gateway calls, in order: <<[node, pt]>>
  writes,    \* this run's store writes
  gwFailed,  \* nodes whose gateway call returned the empty string, this run
  skipped,   \* frontier nodes process_hierarchy found already processed
  hist,      \* facts about earlier steps and runs the properties refer to
  front,     \* pipeline mode: whose process_steps runs, "console" or "app"
  registry,  \* pipeline mode: the method names downstream_processor has
  errors,    \* pipeline mode: the logging.error entries of process_steps
  source,    \* parsers: the lines the gateway's response was written from
  response,  \* parsers: the response text, a sequence of characters
  parser,    \* parsers: the parsing method applied, or "none"
  parsed,    \* parsers: the list the parsing method returned
  job_nodes, \* self.job_nodes of the HierarchyBuilder object
  collection_name, \* MongoDBManager: self.collection_name
  db,        \* the database: collection name -> its documents, in order
  outcome,   \* MongoDBManager: the last operation called and what came of it
  accesses,  \* number of operations carried out on the database
  worker,    \* two workers: the worker whose call stack is in stack
  parked     \* two workers: the call stack of the other worker

vars ==
  << variant, oracle, pc, stack, mem, root, frontier, fi, docs, snap, nextId,
     run, faults, calls, writes, gwFailed, skipped, hist, front, registry,
     errors, source, response, parser, parsed, job_nodes, collection_name,
     db, outcome, accesses, worker, parked >>

mgrVars == << collection_name, db, outcome, accesses >>
workerVars == << worker, parked >>

parseVars == << source, response, parser, parsed >>

\* ------------------------------------------------------------ the gateway
\* Size of the tree an uninterrupted run builds from oracle o.
TreeSize(o) ==
  LET s == o["sectors"]
      b == o["subsectors"]
      u == o["end_users_provider"] + o["end_users_customer"]
      j == o["jtbd_industry"]
  IN 1 + s + s * b + s * b * 2 + s * b * u + s * b * u * j

\* Answers that cannot matter (no node of that level is ever built) are 0.
Canonical(o) ==
  /\ (o["sectors"] = 0 => o["subsectors"] = 0)
  /\ (o["subsectors"] = 0 =>
        o["end_users_provider"] = 0 /\ o["end_users_customer"] = 0)
  /\ (o["end_users_provider"] + o["end_users_customer"] = 0 => o["jtbd_industry"] = 0)

Oracles ==
  { o \in [PromptTypes -> 0..MaxRec] : Canonical(o) /\ TreeSize(o) <= MaxNodes }

\* LLMInterface.get_response followed by parse_list / parse_roles / parse_jobs:
\* the records of the answer, in line order.  failed: the gateway returned "".
Records(o, pt, failed) ==
  IF failed THEN << >>
  ELSE [i \in 1..o[pt] |-> [name |-> i, description |-> i]]

\* ------------------------------------------------------------ the tree
\* Faulty variant: a Job node is created unprocessed, like every other node.
NewNodeJobUnprocessed(name, desc, type, processed, parent) ==
  [name |-> name, description |-> desc, type |-> type,
   processed |-> IF type = "Job" THEN FALSE ELSE processed,
   parent |-> parent, children |-> << >>]

NewNode(name, desc, type, processed, parent) ==
  [name |-> name, description |-> desc, type |-> type, processed |-> processed,
   parent |-> parent, children |-> << >>]

\* Faulty variant: giving a node a child reopens the node.
AttachReopensParent(m, id, node) ==
  LET m1 == m @@ (id :> node)
  IN IF node.parent = NoNode THEN m1
     ELSE [m1 EXCEPT ![node.parent].children = Append(@, id),
                     ![node.parent].processed = FALSE]

\* Faulty variant: the new node becomes the first child.
AttachFirst(m, id, node) ==
  LET m1 == m @@ (id :> node)
  IN IF node.parent = NoNode THEN m1
     ELSE [m1 EXCEPT ![node.parent].children = << id >> \o @]

\* anytree: Node(..., parent=p) appends the new node to p.children.
Attach(m, id, node) ==
  LET m1 == m @@ (id :> node)
  IN IF node.parent = NoNode THEN m1
     ELSE [m1 EXCEPT ![node.parent].children = Append(@, id)]

RECURSIVE PreOrderFrom(_, _, _)
PreOrderIter(m, n) == PreOrderFrom(m, << n >>, << >>)
\* todo: nodes still to visit (a stack, first is next); acc: visited so far.
PreOrderFrom(m, todo, acc) ==
  IF todo = << >> THEN acc
  ELSE PreOrderFrom(m, m[Head(todo)].children \o Tail(todo), Append(acc, Head(todo)))

\* Faulty variant: the processed filter is missing.
UnprocessedUnfiltered(m, r) == PreOrderIter(m, r)

\* [node for node in PreOrderIter(self.root) if not node.processed]
Unprocessed(m, r) ==
  SelectSeq(PreOrderIter(m, r), LAMBDA n : ~m[n].processed)

\* ------------------------------------------ multi-document persistence
FindIdx(ds, id) ==
  IF \E i \in 1..Len(ds) : ds[i].node_id = id
  THEN CHOOSE i \in 1..Len(ds) :
         ds[i].node_id = id /\ \A j \in 1..(i - 1) : ds[j].node_id # id
  ELSE 0

NodeDict(m, n) ==
  [node_id |-> n, name |-> m[n].name, description |-> m[n].description,
   processed |-> m[n].processed, type |-> m[n].type,
   parent_id |-> m[n].parent, children_ids |-> m[n].children]

\* Faulty variant: an update leaves the stored document as it was.
UpdateEntryFirstWriteWins(ds, i, d) == ds

\* insert_entry appends a document; update_entry $sets the first match.
InsertEntry(ds, d) == Append(ds, d)
UpdateEntry(ds, i, d) == [ds EXCEPT ![i] = d]

\* Faulty variant: every save inserts a new document.
SaveNodeToMongoInsertOnly(ds, m, n) == InsertEntry(ds, NodeDict(m, n))

SaveNodeToMongo(ds, m, n) ==
  LET i == FindIdx(ds, n)
  IN IF i # 0 THEN UpdateEntry(ds, i, NodeDict(m, n))
     ELSE InsertEntry(ds, NodeDict(m, n))

\* Faulty variant: the root query of the single-document builder, {"industry": industry},
\* which matches the first document of the industry whatever its type.
LoadSavedHierarchyAnyType(ds) == IF Len(ds) > 0 THEN 1 ELSE 0

\* find_entry({"industry": industry, "type": "Industry"}): index or 0.
LoadSavedHierarchy(ds) ==
  IF \E i \in 1..Len(ds) : ds[i].type = "Industry"
  THEN CHOOSE i \in 1..Len(ds) :
         ds[i].type = "Industry" /\ \A j \in 1..(i - 1) : ds[j].type # "Industry"
  ELSE 0

RECURSIVE BuildTreeFromMongo(_, _, _, _), BuildKidsFromMongo(_, _, _, _, _)
\* Faulty variant: the stored processed flag is not read back (it defaults to False).
BuildTreeFromMongoFlagLost(m, ds, entry, parent) ==
  LET node == NewNode(entry.name, entry.description, entry.type, FALSE, parent)
  IN BuildKidsFromMongo(Attach(m, entry.node_id, node), ds,
                        entry.children_ids, entry.node_id, 1)

\* Faulty variant: the children are the documents that name the node as their
\* parent_id, whatever its children_ids say.
BuildTreeFromMongoByParentId(m, ds, entry, parent) ==
  LET node == NewNode(entry.name, entry.description, entry.type,
                      entry.processed, parent)
      kids == SelectSeq(ds, LAMBDA d : d.parent_id = entry.node_id)
  IN BuildKidsFromMongo(Attach(m, entry.node_id, node), ds,
                        [i \in 1..Len(kids) |-> kids[i].node_id],
                        entry.node_id, 1)

\* build_tree_from_mongo: the node of entry, then its stored children in order;
\* a child id with no document is skipped.
BuildTreeFromMongo(m, ds, entry, parent) ==
  LET node == NewNode(entry.name, entry.description, entry.type,
                      entry.processed, parent)
  IN BuildKidsFromMongo(Attach(m, entry.node_id, node), ds,
                        entry.children_ids, entry.node_id, 1)
BuildKidsFromMongo(m, ds, ids, parent, i) ==
  IF i > Len(ids) THEN m
  ELSE LET k == FindIdx(ds, ids[i])
       IN BuildKidsFromMongo(
            IF k # 0 THEN BuildTreeFromMongo(m, ds, ds[k], parent) ELSE m,
            ds, ids, parent, i + 1)

\* ------------------------------------------ single-document persistence
RECURSIVE ConvertHierarchyToDict(_, _)
ConvertHierarchyToDict(m, n) ==
  [name |-> m[n].name, description |-> m[n].description,
   processed |-> m[n].processed, type |-> m[n].type,
   children |-> [i \in 1..Len(m[n].children) |->
                   ConvertHierarchyToDict(m, m[n].children[i])]]

RECURSIVE BuildTree(_, _, _), BuildKids(_, _, _, _)
\* New Node objects, numbered in creation order.
BuildTree(m, d, parent) ==
  LET id == Cardinality(DOMAIN m) + 1
  IN BuildKids(Attach(m, id, NewNode(d.name, d.description, d.type,
                                      d.processed, parent)),
               d.children, id, 1)
BuildKids(m, kids, parent, i) ==
  IF i > Len(kids) THEN m
  ELSE BuildKids(BuildTree(m, kids[i], parent), kids, parent, i + 1)

\* ------------------------------------------------------------ call stack
\* One frame per active call of _generate_and_process_children ("gen"), of the
\* Sub-sector branch of _process_node ("sub") or of
\* _generate_and_process_end_user_type with its inlined _process_jobs ("eut").
Frame(fn, node, ph, pt, ctype) ==
  [fn |-> fn, node |-> node, ph |-> ph, pt |-> pt, ctype |-> ctype,
   kids |-> << >>, loop |-> << >>, n0 |-> 0, i |-> 1, grp |-> NoNode,
   k |-> 0, eu |-> NoNode, j |-> 1, nj |-> 0]

\* Faulty variant: a Sector is handled like a Sub-sector.
ProcessNodeSectorAsSubSector(m, n) ==
  IF m[n].type = "Industry"
    THEN << Frame("gen", n, "call", "sectors", "Sector") >>
  ELSE IF m[n].type \in {"Sector", "Sub-sector"}
    THEN << Frame("sub", n, "prov", "none", "none") >>
  ELSE << >>

\* Faulty variant: the Sub-sector branch asks for the customers only.
ProcessNodeCustomersOnly(m, n) ==
  IF m[n].type = "Industry"
    THEN << Frame("gen", n, "call", "sectors", "Sector") >>
  ELSE IF m[n].type = "Sector"
    THEN << Frame("gen", n, "call", "subsectors", "Sub-sector") >>
  ELSE IF m[n].type = "Sub-sector"
    THEN << Frame("sub", n, "cust", "none", "none") >>
  ELSE << >>

\* _process_node: dispatch on the node's type; other types fall through.
ProcessNode(m, n) ==
  IF m[n].type = "Industry"
    THEN << Frame("gen", n, "call", "sectors", "Sector") >>
  ELSE IF m[n].type = "Sector"
    THEN << Frame("gen", n, "call", "subsectors", "Sub-sector") >>
  ELSE IF m[n].type = "Sub-sector"
    THEN << Frame("sub", n, "prov", "none", "none") >>
  ELSE << >>

\* Faulty variant: the processed check is missing.
ShouldProcessAlways(m, n) == TRUE

\* "if not node.processed" of process_hierarchy and of the loop over children.
ShouldProcess(m, n) == ~m[n].processed

\* Faulty variant: the flag is never set.
MarkProcessedNever(m, n) == m

\* Faulty variant: a node that got no child is not marked.
MarkProcessedIfChildren(m, n) ==
  IF m[n].children = << >> THEN m ELSE [m EXCEPT ![n].processed = TRUE]

\* node.processed = True
MarkProcessed(m, n) == [m EXCEPT ![n].processed = TRUE]

Top == stack[Len(stack)]
Pop == SubSeq(stack, 1, Len(stack) - 1)
SetTop(f) == [stack EXCEPT ![Len(stack)] = f]
Running == pc \in {"frontier", "fresh", "workers"}
At(fn, ph) == Running /\ stack # << >> /\ Top.fn = fn /\ Top.ph = ph

\* One store write of node n (multi) or of the whole hierarchy (single).
SaveDocs(m, n) == IF variant = "multi" THEN SaveNodeToMongo(docs, m, n) ELSE docs
SaveSnap(m) == IF variant = "single" THEN ConvertHierarchyToDict(m, root) ELSE snap

\* The persisted tree, as build_hierarchy would load it (empty if no root).
Loaded ==
  IF variant = "multi"
  THEN IF LoadSavedHierarchy(docs) = 0 THEN << >>
       ELSE BuildTreeFromMongo(<< >>, docs, docs[LoadSavedHierarchy(docs)], NoNode)
  ELSE IF snap = NoSnap THEN << >> ELSE BuildTree(<< >>, snap, NoNode)
LoadedRoot ==
  IF variant = "multi"
  THEN IF LoadSavedHierarchy(docs) = 0 THEN NoNode
       ELSE docs[LoadSavedHierarchy(docs)].node_id
  ELSE IF snap = NoSnap THEN NoNode ELSE 1

\* The tree below n up to node identities: names, types, flags, child order.
RECURSIVE Shape(_, _)
Shape(m, n) ==
  [name |-> m[n].name, type |-> m[n].type, processed |-> m[n].processed,
   children |-> [i \in 1..Len(m[n].children) |-> Shape(m, m[n].children[i])]]

\* Every node of a stored hierarchy dict is processed.
RECURSIVE DictComplete(_)
DictComplete(d) ==
  d.processed /\ \A i \in 1..Len(d.children) : DictComplete(d.children[i])

\* The node_ids reachable from the stored root document along children_ids.
RECURSIVE ReachFrom(_, _)
ReachFrom(ds, ids) ==
  LET more == { c \in UNION { { ds[i].children_ids[j] : j \in 1..Len(ds[i].children_ids) }
                               : i \in { i \in 1..Len(ds) : ds[i].node_id \in ids } } :
                  \E i \in 1..Len(ds) : ds[i].node_id = c }
  IN IF more \subseteq ids THEN ids ELSE ReachFrom(ds, ids \cup more)

\* A root is persisted and every persisted node reachable from it is processed.
PersistedComplete ==
  IF variant = "single" THEN snap # NoSnap /\ DictComplete(snap)
  ELSE /\ \E i \in 1..Len(docs) : docs[i].type = "Industry"
       /\ \A i \in 1..Len(docs) :
            docs[i].node_id \in
              ReachFrom(docs, { docs[r].node_id :
                                  r \in { r \in 1..Len(docs) : docs[r].type = "Industry" } })
            => docs[i].processed

\* hist: lastComplete, the last step persisted a node as processed;
\* crashed / crashRun, a crash happened, and in which run; crashAfterComplete,
\* every crash came right after such a step; pending / pendingType, the
\* parent that was between the save of its new children and its own save
\* when the process crashed; startComplete, this run began from a persisted
\* tree that was complete; prevDone / prevShape, the previous run was such a
\* resume and returned, and the tree it returned; anyGwFail / anyRaise, a gateway call failed or an
\* exception was raised in some run; crashNextId, the first node id not yet
\* given out when the process crashed.
Hist0 ==
  [lastComplete |-> FALSE, crashed |-> FALSE, crashRun |-> 0,
   crashAfterComplete |-> FALSE, pending |-> NoNode, pendingType |-> "none",
   startComplete |-> FALSE, prevDone |-> FALSE, prevShape |-> NoSnap,
   anyGwFail |-> FALSE, anyRaise |-> FALSE, crashNextId |-> 0]

Step(complete) == hist' = [hist EXCEPT !.lastComplete = complete]

Init ==
  /\ variant \in Variants
  /\ oracle \in Oracles
  /\ pc = "idle"
  /\ stack = << >>
  /\ mem = << >>
  /\ root = NoNode
  /\ frontier = << >>
  /\ fi = 1
  /\ docs = << >>
  /\ snap = NoSnap
  /\ nextId = 1
  /\ run = 0
  /\ faults = 0
  /\ calls = << >>
  /\ writes = 0
  /\ gwFailed = {}
  /\ skipped = {}
  /\ hist = Hist0
  /\ front = "none"
  /\ registry = {}
  /\ errors = << >>
  /\ source = << >>
  /\ response = << >>
  /\ parser = "none"
  /\ parsed = << >>
  /\ job_nodes = << >>
  /\ collection_name = "None"
  /\ db = << >>
  /\ outcome = << >>
  /\ accesses = 0
  /\ worker = 0
  /\ parked = << >>

\* ------------------------------------------------------- build_hierarchy
\* build_hierarchy up to its first call of process_hierarchy / _process_node.
BuildHierarchy ==
  /\ pc \in {"idle", "done", "crashed", "raised"}
  /\ run < MaxRuns
  /\ run' = run + 1
  /\ calls' = << >> /\ writes' = 0 /\ gwFailed' = {} /\ skipped' = {}
  /\ fi' = 1
  /\ UNCHANGED << mgrVars, workerVars, parseVars, front, registry, errors, variant, oracle, docs, snap, faults >>
  /\ IF LoadedRoot # NoNode
     THEN /\ mem' = Loaded
          /\ root' = LoadedRoot
          /\ job_nodes' = Unprocessed(mem', root')
          /\ frontier' = Unprocessed(mem', root')
          /\ pc' = IF frontier' = << >> THEN "done" ELSE "frontier"
          /\ stack' = << >>
          /\ nextId' = IF variant = "multi" THEN nextId
                       ELSE Cardinality(DOMAIN mem') + 1
          /\ hist' = [hist EXCEPT
                 !.lastComplete = FALSE,
                 !.startComplete = PersistedComplete,
                 !.prevDone = (pc = "done" /\ hist.startComplete),
                 !.prevShape = IF pc = "done" THEN Shape(mem, root) ELSE NoSnap]
     ELSE /\ root' = IF variant = "multi" THEN nextId ELSE 1
          /\ mem' = Attach(<< >>, root', NewNode(0, 0, "Industry", FALSE, NoNode))
          /\ nextId' = root' + 1
          /\ job_nodes' = job_nodes
          /\ frontier' = << >>
          /\ stack' = ProcessNode(mem', root')
          /\ pc' = "fresh"
          /\ hist' = [hist EXCEPT
                 !.lastComplete = FALSE,
                 !.startComplete = PersistedComplete,
                 !.prevDone = (pc = "done" /\ hist.startComplete),
                 !.prevShape = IF pc = "done" THEN Shape(mem, root) ELSE NoSnap]

\* process_hierarchy: one turn of its loop over unprocessed_nodes.
ProcessHierarchy ==
  /\ pc = "frontier" /\ stack = << >>
  /\ UNCHANGED << mgrVars, workerVars, parseVars, job_nodes, front, registry, errors, variant, oracle, mem, root, frontier, docs, snap, nextId, run,
                  faults, calls, writes, gwFailed >>
  /\ Step(FALSE)
  /\ IF fi > Len(frontier)
     THEN pc' = "done" /\ UNCHANGED << stack, fi, skipped >>
     ELSE /\ pc' = pc
          /\ fi' = fi + 1
          /\ IF ShouldProcess(mem, frontier[fi])
             THEN stack' = ProcessNode(mem, frontier[fi]) /\ UNCHANGED skipped
             ELSE stack' = stack /\ skipped' = skipped \cup {frontier[fi]}

\* build_hierarchy, fresh build: the final save of the root, then return.
FinalSave ==
  /\ pc = "fresh" /\ stack = << >>
  /\ pc' = "done"
  /\ docs' = SaveDocs(mem, root)
  /\ snap' = SaveSnap(mem)
  /\ writes' = writes + 1
  /\ Step(FALSE)
  /\ UNCHANGED << mgrVars, workerVars, parseVars, job_nodes, front, registry, errors, variant, oracle, stack, mem, root, frontier, fi, nextId, run,
                  faults, calls, gwFailed, skipped >>

\* ------------------------------------------- _generate_and_process_children
\* The gateway answers normally, or (a fault) with the empty string.
GatewayOutcomes == {FALSE} \cup (IF faults < MaxFaults THEN {TRUE} ELSE {})

RECURSIVE AddChildren(_, _, _, _, _, _), AddChildrenReversed(_, _, _, _, _, _)
\* Faulty variant: the records are taken last to first.
AddChildrenReversed(m, parent, recs, type, processed, id) ==
  IF recs = << >> THEN m
  ELSE AddChildrenReversed(
         Attach(m, id, NewNode(recs[Len(recs)].name, recs[Len(recs)].description,
                               type, processed, parent)),
         parent, SubSeq(recs, 1, Len(recs) - 1), type, processed, id + 1)

\* Node(child["name"], parent=parent_node, ..., processed=False) per record.
AddChildren(m, parent, recs, type, processed, id) ==
  IF recs = << >> THEN m
  ELSE AddChildren(
         Attach(m, id, NewNode(Head(recs).name, Head(recs).description, type,
                               processed, parent)),
         parent, Tail(recs), type, processed, id + 1)

NewIds(n) == [i \in 1..n |-> nextId + i - 1]

\* get_prompt, get_response, parse_list and the creation of the child nodes.
GenerateChildren ==
  /\ At("gen", "call")
  /\ \E failed \in GatewayOutcomes :
       LET recs == Records(oracle, Top.pt, failed)
           k == Len(recs)
       IN /\ mem' = AddChildren(mem, Top.node, recs, Top.ctype, FALSE, nextId)
          /\ nextId' = nextId + k
          /\ calls' = Append(calls, [node |-> Top.node, pt |-> Top.pt])
          /\ gwFailed' = IF failed THEN gwFailed \cup {Top.node} ELSE gwFailed
          /\ faults' = IF failed THEN faults + 1 ELSE faults
          /\ hist' = [hist EXCEPT !.lastComplete = FALSE,
                                  !.anyGwFail = @ \/ failed]
          /\ stack' = SetTop([Top EXCEPT
                 !.kids = NewIds(k), !.k = k,
                 !.n0 = Len(mem[Top.node].children), !.i = 1,
                 !.ph = IF variant = "multi" /\ k = 0 THEN "saveParent"
                        ELSE "saveKids"])
  /\ UNCHANGED << mgrVars, workerVars, parseVars, job_nodes, front, registry, errors, variant, oracle, pc, root, frontier, fi, docs, snap, run,
                  writes, skipped >>

\* _save_node_to_mongo(child_nodes), one document per step; the single-document
\* builder saves the whole hierarchy once.
SaveChildren ==
  /\ At("gen", "saveKids")
  /\ docs' = IF variant = "multi" THEN SaveDocs(mem, Top.kids[Top.i]) ELSE docs
  /\ snap' = SaveSnap(mem)
  /\ writes' = writes + 1
  /\ stack' = SetTop([Top EXCEPT
         !.i = @ + 1,
         !.ph = IF variant = "single" \/ Top.i >= Len(Top.kids)
                THEN "saveParent" ELSE "saveKids"])
  /\ Step(FALSE)
  /\ UNCHANGED << mgrVars, workerVars, parseVars, job_nodes, front, registry, errors, variant, oracle, pc, mem, root, frontier, fi, nextId, run,
                  faults, calls, gwFailed, skipped >>

\* parent_node.processed = True and its save.  The loop that follows runs over
\* child_nodes (multi) or over parent_node.children (single).
MarkParentProcessed ==
  /\ At("gen", "saveParent")
  /\ mem' = MarkProcessed(mem, Top.node)
  /\ docs' = SaveDocs(mem', Top.node)
  /\ snap' = SaveSnap(mem')
  /\ writes' = writes + 1
  /\ stack' = SetTop([Top EXCEPT
         !.ph = "recurse", !.i = 1,
         !.loop = IF variant = "multi" THEN Top.kids ELSE mem[Top.node].children])
  /\ Step(TRUE)
  /\ UNCHANGED << mgrVars, workerVars, parseVars, job_nodes, front, registry, errors, variant, oracle, pc, root, frontier, fi, nextId, run, faults,
                  calls, gwFailed, skipped >>

\* for child_node in ...: if not child_node.processed: _process_node(child_node)
ProcessChildren ==
  /\ At("gen", "recurse")
  /\ IF Top.i > Len(Top.loop)
     THEN stack' = Pop
     ELSE stack' = SetTop([Top EXCEPT !.i = @ + 1]) \o
                   (IF ShouldProcess(mem, Top.loop[Top.i])
                    THEN ProcessNode(mem, Top.loop[Top.i]) ELSE << >>)
  /\ Step(FALSE)
  /\ UNCHANGED << mgrVars, workerVars, parseVars, job_nodes, front, registry, errors, variant, oracle, pc, mem, root, frontier, fi, docs, snap,
                  nextId, run, faults, calls, writes, gwFailed, skipped >>

\* --------------------------------------- _process_node, Sub-sector branch
\* _process_end_users: the provider call, then the customer call.
ProcessEndUsers ==
  /\ \/ At("sub", "prov") \/ At("sub", "cust")
  /\ stack' = SetTop([Top EXCEPT !.ph = IF Top.ph = "prov" THEN "cust" ELSE "mark"])
              \o << Frame("eut", Top.node, "call",
                          IF Top.ph = "prov" THEN "end_users_provider"
                          ELSE "end_users_customer",
                          IF Top.ph = "prov" THEN ProviderGroup ELSE CustomerGroup) >>
  /\ Step(FALSE)
  /\ UNCHANGED << mgrVars, workerVars, parseVars, job_nodes, front, registry, errors, variant, oracle, pc, mem, root, frontier, fi, docs, snap,
                  nextId, run, faults, calls, writes, gwFailed, skipped >>

\* node.processed = True and its save, after _process_end_users returned.
MarkSubSectorProcessed ==
  /\ At("sub", "mark")
  /\ mem' = MarkProcessed(mem, Top.node)
  /\ docs' = SaveDocs(mem', Top.node)
  /\ snap' = SaveSnap(mem')
  /\ writes' = writes + 1
  /\ stack' = Pop
  /\ Step(TRUE)
  /\ UNCHANGED << mgrVars, workerVars, parseVars, job_nodes, front, registry, errors, variant, oracle, pc, root, frontier, fi, nextId, run, faults,
                  calls, gwFailed, skipped >>

\* ------------------------------------ _generate_and_process_end_user_type
GroupName(ctype) == IF ctype = ProviderGroup THEN 1 ELSE 2

\* get_prompt, get_response, parse_roles and the creation of the group node.
GenerateEndUsers ==
  /\ At("eut", "call")
  /\ \E failed \in GatewayOutcomes :
       LET k == Len(Records(oracle, Top.pt, failed))
       IN /\ mem' = Attach(mem, nextId,
                      NewNode(GroupName(Top.ctype), GroupName(Top.ctype),
                              Top.ctype, FALSE, Top.node))
          /\ nextId' = nextId + 1
          /\ calls' = Append(calls, [node |-> Top.node, pt |-> Top.pt])
          /\ gwFailed' = IF failed THEN gwFailed \cup {Top.node} ELSE gwFailed
          /\ faults' = IF failed THEN faults + 1 ELSE faults
          /\ hist' = [hist EXCEPT !.lastComplete = FALSE,
                                  !.anyGwFail = @ \/ failed]
          /\ stack' = SetTop([Top EXCEPT
                 !.grp = nextId, !.k = k, !.i = 1,
                 !.ph = IF variant = "multi" THEN "saveGroup"
                        ELSE IF k = 0 THEN "groupDone" ELSE "mkEU"])
  /\ UNCHANGED << mgrVars, workerVars, parseVars, job_nodes, front, registry, errors, variant, oracle, pc, root, frontier, fi, docs, snap, run,
                  writes, skipped >>

\* _save_node_to_mongo(end_user_parent_node), multi-document builder only.
SaveGroup ==
  /\ At("eut", "saveGroup")
  /\ docs' = SaveDocs(mem, Top.grp)
  /\ writes' = writes + 1
  /\ stack' = SetTop([Top EXCEPT !.ph = IF Top.k = 0 THEN "groupDone" ELSE "mkEU"])
  /\ Step(FALSE)
  /\ UNCHANGED << mgrVars, workerVars, parseVars, job_nodes, front, registry, errors, variant, oracle, pc, mem, root, frontier, fi, snap, nextId,
                  run, faults, calls, gwFailed, skipped >>

\* The End User node of record i and its first save.
CreateEndUser ==
  /\ At("eut", "mkEU")
  /\ mem' = Attach(mem, nextId, NewNode(Top.i, Top.i, "End User", FALSE, Top.grp))
  /\ nextId' = nextId + 1
  /\ docs' = SaveDocs(mem', nextId)
  /\ snap' = SaveSnap(mem')
  /\ writes' = writes + 1
  /\ stack' = SetTop([Top EXCEPT !.eu = nextId, !.ph = "jobsCall"])
  /\ Step(FALSE)
  /\ UNCHANGED << mgrVars, workerVars, parseVars, job_nodes, front, registry, errors, variant, oracle, pc, root, frontier, fi, run, faults, calls,
                  gwFailed, skipped >>

\* _process_jobs: get_prompt, get_response, parse_jobs.  The multi-document
\* builder creates every Job node before its batch save; the single-document
\* builder creates and saves them one at a time.
GenerateJobs ==
  /\ At("eut", "jobsCall")
  /\ \E failed \in GatewayOutcomes :
       LET recs == Records(oracle, "jtbd_industry", failed)
           k == Len(recs)
       IN /\ mem' = IF variant = "multi"
                    THEN AddChildren(mem, Top.eu, recs, "Job", TRUE, nextId)
                    ELSE mem
          /\ nextId' = IF variant = "multi" THEN nextId + k ELSE nextId
          /\ calls' = Append(calls, [node |-> Top.eu, pt |-> "jtbd_industry"])
          /\ gwFailed' = IF failed THEN gwFailed \cup {Top.eu} ELSE gwFailed
          /\ faults' = IF failed THEN faults + 1 ELSE faults
          /\ hist' = [hist EXCEPT !.lastComplete = FALSE,
                                  !.anyGwFail = @ \/ failed]
          /\ stack' = SetTop([Top EXCEPT
                 !.kids = IF variant = "multi" THEN NewIds(k) ELSE << >>,
                 !.nj = k, !.j = 1,
                 !.ph = IF k = 0 THEN "euDone" ELSE "saveJobs"])
  /\ UNCHANGED << mgrVars, workerVars, parseVars, job_nodes, front, registry, errors, variant, oracle, pc, root, frontier, fi, docs, snap, run,
                  writes, skipped >>

\* One Job document of the batch (multi); one new Job node and the save of the
\* hierarchy (single).
SaveJob ==
  /\ At("eut", "saveJobs")
  /\ mem' = IF variant = "multi" THEN mem
            ELSE Attach(mem, nextId, NewNode(Top.j, Top.j, "Job", TRUE, Top.eu))
  /\ nextId' = IF variant = "multi" THEN nextId ELSE nextId + 1
  /\ docs' = IF variant = "multi" THEN SaveDocs(mem, Top.kids[Top.j]) ELSE docs
  /\ snap' = SaveSnap(mem')
  /\ writes' = writes + 1
  /\ stack' = SetTop([Top EXCEPT
         !.j = @ + 1, !.ph = IF Top.j >= Top.nj THEN "euDone" ELSE "saveJobs"])
  /\ Step(FALSE)
  /\ UNCHANGED << mgrVars, workerVars, parseVars, job_nodes, front, registry, errors, variant, oracle, pc, root, frontier, fi, run, faults, calls,
                  gwFailed, skipped >>

\* end_user_node.processed = True and its save; on to the next record.
MarkEndUserProcessed ==
  /\ At("eut", "euDone")
  /\ mem' = MarkProcessed(mem, Top.eu)
  /\ docs' = SaveDocs(mem', Top.eu)
  /\ snap' = SaveSnap(mem')
  /\ writes' = writes + 1
  /\ stack' = SetTop([Top EXCEPT
         !.i = @ + 1, !.ph = IF Top.i >= Top.k THEN "groupDone" ELSE "mkEU"])
  /\ Step(TRUE)
  /\ UNCHANGED << mgrVars, workerVars, parseVars, job_nodes, front, registry, errors, variant, oracle, pc, root, frontier, fi, nextId, run, faults,
                  calls, gwFailed, skipped >>

\* end_user_parent_node.processed = True and its save; return.
MarkGroupProcessed ==
  /\ At("eut", "groupDone")
  /\ mem' = MarkProcessed(mem, Top.grp)
  /\ docs' = SaveDocs(mem', Top.grp)
  /\ snap' = SaveSnap(mem')
  /\ writes' = writes + 1
  /\ stack' = Pop
  /\ Step(TRUE)
  /\ UNCHANGED << mgrVars, workerVars, parseVars, job_nodes, front, registry, errors, variant, oracle, pc, root, frontier, fi, nextId, run, faults,
                  calls, gwFailed, skipped >>

\* ------------------------------------------------------------ environment
\* The parent whose new children are persisted while it is not yet persisted
\* as processed, at the current position (NoNode if there is none).
PendingParent ==
  IF stack = << >> THEN NoNode
  ELSE IF Top.fn = "gen" /\ Top.ph = "saveParent" /\ Top.kids # << >> THEN Top.node
  ELSE IF Top.fn = "sub" /\ Top.ph \in {"cust", "mark"} THEN Top.node
  ELSE NoNode

\* The process is killed between two steps.
Crash ==
  /\ Running
  /\ faults < MaxFaults
  /\ faults' = faults + 1
  /\ pc' = "crashed"
  /\ stack' = << >> /\ mem' = << >> /\ root' = NoNode /\ frontier' = << >>
  /\ job_nodes' = << >>
  /\ fi' = 1
  /\ hist' = [hist EXCEPT
         !.crashed = TRUE,
         !.crashRun = run,
         !.crashNextId = nextId,
         !.crashAfterComplete = (hist.crashed => @) /\ hist.lastComplete,
         !.pending = PendingParent,
         !.pendingType = IF PendingParent = NoNode THEN "none"
                         ELSE mem[PendingParent].type,
         !.lastComplete = FALSE]
  /\ UNCHANGED << mgrVars, workerVars, parseVars, front, registry, errors, variant, oracle, docs, snap, nextId, run, calls, writes,
                  gwFailed, skipped >>

\* Phases whose step calls the prompt builder or the store outside any try.
RaisingPhases ==
  {"call", "saveKids", "saveParent", "mark", "saveGroup", "mkEU", "euDone",
   "groupDone"}
\* Phases that set processed = True in memory before their save.
MarkingPhases == {"saveParent", "mark", "euDone", "groupDone"}
MarkedNode(f) ==
  IF f.ph = "euDone" THEN f.eu ELSE IF f.ph = "groupDone" THEN f.grp ELSE f.node

\* An exception raised by get_prompt or by a store operation: nothing in
\* _generate_and_process_children, _process_node, process_hierarchy or
\* build_hierarchy catches it, so it leaves build_hierarchy.
RaiseException ==
  /\ Running
  /\ faults < MaxFaults
  /\ \/ stack # << >> /\ Top.ph \in RaisingPhases
     \/ stack = << >> /\ pc = "fresh"
  /\ faults' = faults + 1
  /\ pc' = "raised"
  /\ stack' = << >>
  /\ mem' = IF stack # << >> /\ Top.ph \in MarkingPhases
            THEN MarkProcessed(mem, MarkedNode(Top)) ELSE mem
  /\ hist' = [hist EXCEPT !.anyRaise = TRUE, !.lastComplete = FALSE]
  /\ UNCHANGED << mgrVars, workerVars, parseVars, job_nodes, front, registry, errors, variant, oracle, root, frontier, fi, docs, snap, nextId, run,
                  calls, writes, gwFailed, skipped >>

\* Faulty variant: the exception ends the loop over the roles of the group.
CatchInProcessJobsEndsGroup ==
  /\ \/ At("eut", "jobsCall") \/ At("eut", "saveJobs")
  /\ faults < MaxFaults
  /\ faults' = faults + 1
  /\ mem' = IF variant = "single" /\ Top.ph = "saveJobs"
            THEN Attach(mem, nextId, NewNode(Top.j, Top.j, "Job", TRUE, Top.eu))
            ELSE mem
  /\ nextId' = IF variant = "single" /\ Top.ph = "saveJobs" THEN nextId + 1
               ELSE nextId
  /\ stack' = SetTop([Top EXCEPT !.ph = "groupDone"])
  /\ hist' = [hist EXCEPT !.anyRaise = TRUE, !.lastComplete = FALSE]
  /\ UNCHANGED << mgrVars, workerVars, parseVars, job_nodes, front, registry, errors, variant, oracle, pc, root, frontier, fi, docs, snap, run,
                  calls, writes, gwFailed, skipped >>

\* An exception raised inside _process_jobs is caught and logged there; the
\* End User is then marked processed by the caller.
CatchInProcessJobs ==
  /\ \/ At("eut", "jobsCall") \/ At("eut", "saveJobs")
  /\ faults < MaxFaults
  /\ faults' = faults + 1
  /\ mem' = IF variant = "single" /\ Top.ph = "saveJobs"
            THEN Attach(mem, nextId, NewNode(Top.j, Top.j, "Job", TRUE, Top.eu))
            ELSE mem
  /\ nextId' = IF variant = "single" /\ Top.ph = "saveJobs" THEN nextId + 1
               ELSE nextId
  /\ stack' = SetTop([Top EXCEPT !.ph = "euDone"])
  /\ hist' = [hist EXCEPT !.anyRaise = TRUE, !.lastComplete = FALSE]
  /\ UNCHANGED << mgrVars, workerVars, parseVars, job_nodes, front, registry, errors, variant, oracle, pc, root, frontier, fi, docs, snap, run,
                  calls, writes, gwFailed, skipped >>

Next ==
  \/ BuildHierarchy
  \/ ProcessHierarchy
  \/ FinalSave
  \/ GenerateChildren
  \/ SaveChildren
  \/ MarkParentProcessed
  \/ ProcessChildren
  \/ ProcessEndUsers
  \/ MarkSubSectorProcessed
  \/ GenerateEndUsers
  \/ SaveGroup
  \/ CreateEndUser
  \/ GenerateJobs
  \/ SaveJob
  \/ MarkEndUserProcessed
  \/ MarkGroupProcessed
  \/ Crash
  \/ RaiseException
  \/ CatchInProcessJobs

Spec == Init /\ [][Next]_vars

\* ================================================================ claims
AllProcessed == \A n \in DOMAIN mem : mem[n].processed
Count(log, node, pt) ==
  Cardinality({ i \in 1..Len(log) : log[i].node = node /\ log[i].pt = pt })
StoredDoc(n) == docs[FindIdx(docs, n)]
IsStored(n) == FindIdx(docs, n) # 0

\* C1: a resume of build_hierarchy on a persisted tree whose every reachable
\* node is processed makes no gateway call and no store write and returns the
\* persisted tree; when the previous run was such a resume too, it returns
\* the same tree again.
C1_ResumeOfCompleteTreeIsNoOp ==
  (pc = "done" /\ hist.startComplete) =>
    /\ calls = << >>
    /\ writes = 0
    /\ mem = Loaded /\ root = LoadedRoot
    /\ AllProcessed
    /\ (hist.prevDone => Shape(mem, root) = hist.prevShape)

C1_Witness ==
  /\ pc = "done" /\ hist.startComplete /\ hist.prevDone
  /\ run = 3 /\ ~hist.crashed
  /\ variant = "multi"
  /\ \E n \in DOMAIN mem : mem[n].type = "Job"

C1_WitnessAfterCrash ==
  /\ pc = "done" /\ hist.startComplete /\ hist.crashed /\ variant = "single"
  /\ \E n \in DOMAIN mem : mem[n].type = "Job"

\* C2: in every state of the store a node is stored with processed = True
\* only if every one of its children is stored.
C2_ChildrenStoredBeforeParent ==
  \A i \in 1..Len(docs) :
    docs[i].processed =>
      \A j \in 1..Len(docs[i].children_ids) : IsStored(docs[i].children_ids[j])

\* The tree an uninterrupted build produces from gateway o, up to identities.
ExpectedJob(i) ==
  [name |-> i, type |-> "Job", processed |-> TRUE, children |-> << >>]
ExpectedEndUser(o, i) ==
  [name |-> i, type |-> "End User", processed |-> TRUE,
   children |-> [j \in 1..o["jtbd_industry"] |-> ExpectedJob(j)]]
ExpectedGroup(o, ctype, pt) ==
  [name |-> GroupName(ctype), type |-> ctype, processed |-> TRUE,
   children |-> [i \in 1..o[pt] |-> ExpectedEndUser(o, i)]]
ExpectedSubSector(o, i) ==
  [name |-> i, type |-> "Sub-sector", processed |-> TRUE,
   children |-> << ExpectedGroup(o, ProviderGroup, "end_users_provider"),
                   ExpectedGroup(o, CustomerGroup, "end_users_customer") >>]
ExpectedSector(o, i) ==
  [name |-> i, type |-> "Sector", processed |-> TRUE,
   children |-> [j \in 1..o["subsectors"] |-> ExpectedSubSector(o, j)]]
Expected(o) ==
  [name |-> 0, type |-> "Industry", processed |-> TRUE,
   children |-> [i \in 1..o["sectors"] |-> ExpectedSector(o, i)]]

NoFailure == ~hist.anyGwFail /\ ~hist.anyRaise

\* An uninterrupted run against a gateway that never fails returns Expected.
UninterruptedRunBuildsExpected ==
  (pc = "done" /\ NoFailure /\ ~hist.crashed) => Shape(mem, root) = Expected(oracle)

\* C3: for a deterministic gateway, a build interrupted right after a node was
\* persisted as processed and then resumed until build_hierarchy returns gives
\* the tree of the uninterrupted run, up to node identities.
C3_ResumeEquivalence ==
  (pc = "done" /\ NoFailure /\ hist.crashed /\ hist.crashAfterComplete) =>
    Shape(mem, root) = Expected(oracle)

\* C3 holds of the multi-document builder, wherever the interruption falls.
ResumeEquivalenceMulti ==
  (variant = "multi" /\ pc = "done" /\ NoFailure) =>
    Shape(mem, root) = Expected(oracle)

\* C5: a node whose gateway call failed is left with processed = False, in
\* memory and in the store.
C5_FailedNodeStaysIncomplete ==
  \A n \in gwFailed :
    /\ n \in DOMAIN mem => ~mem[n].processed
    /\ (variant = "multi" /\ IsStored(n)) => ~StoredDoc(n).processed

\* C6: no failure raised while a node is expanded leaves build_hierarchy.
C6_NoExceptionLeavesTraversal == pc # "raised"

C4_WitnessRoot ==
  /\ variant = "multi" /\ pc = "done" /\ run = hist.crashRun + 1
  /\ hist.pendingType = "Industry" /\ Len(mem[root].children) = 2

\* Where a node is persisted: its document, or its place in the stored dict.
RECURSIVE PathTo(_, _)
PathTo(m, n) ==
  IF m[n].parent = NoNode THEN << >>
  ELSE Append(PathTo(m, m[n].parent),
              CHOOSE i \in 1..Len(m[m[n].parent].children) :
                m[m[n].parent].children[i] = n)
RECURSIVE HasPath(_, _)
HasPath(d, path) ==
  \/ path = << >>
  \/ Head(path) <= Len(d.children) /\ HasPath(d.children[Head(path)], Tail(path))
RECURSIVE DictAt(_, _)
DictAt(d, path) ==
  IF path = << >> THEN d ELSE DictAt(d.children[Head(path)], Tail(path))

Persisted(n) ==
  IF variant = "multi" THEN IsStored(n)
  ELSE snap # NoSnap /\ HasPath(snap, PathTo(mem, n))
PersistedFlag(n) ==
  IF variant = "multi" THEN StoredDoc(n).processed
  ELSE DictAt(snap, PathTo(mem, n)).processed
PersistedChildCount(n) ==
  IF variant = "multi" THEN Len(StoredDoc(n).children_ids)
  ELSE Len(DictAt(snap, PathTo(mem, n)).children)

GenFrames ==
  { f \in { stack[i] : i \in 1..Len(stack) } : f.fn = "gen" /\ f.ph # "call" }

\* C7: an Industry or Sector expansion whose response parses to zero records
\* adds no child to the node, and the node is marked processed and persisted
\* so.
C7_ZeroRecordsStillProcessed ==
  \A f \in GenFrames :
    f.k = 0 =>
      /\ Len(mem[f.node].children) = f.n0
      /\ (f.ph = "recurse" =>
            /\ mem[f.node].processed
            /\ Persisted(f.node) /\ PersistedFlag(f.node)
            /\ PersistedChildCount(f.node) = f.n0)

C7_Witness ==
  \E f \in GenFrames :
    /\ f.k = 0 /\ f.ph = "recurse" /\ mem[f.node].type = "Sector"
    /\ gwFailed = {} /\ mem[f.node].children = << >> /\ mem[f.node].processed

\* C8: expanding an incomplete Industry or Sector node whose response parses to
\* k records appends exactly k children of the next type in record order, each
\* unprocessed when created and when first persisted, and marks the node
\* processed.
C8_ExpansionAppendsRecordsInOrder ==
  \A f \in GenFrames :
    LET ch == mem[f.node].children
        recs == Records(oracle, f.pt, f.node \in gwFailed)
    IN /\ mem[f.node].type \in {"Industry", "Sector"}
       /\ Len(ch) = f.n0 + Len(recs)
       /\ \A i \in 1..Len(recs) :
            LET c == ch[f.n0 + i]
            IN /\ mem[c].name = recs[i].name
               /\ mem[c].description = recs[i].description
               /\ mem[c].parent = f.node
               /\ mem[c].type =
                    (IF mem[f.node].type = "Industry" THEN "Sector" ELSE "Sub-sector")
               /\ (f.ph \in {"saveKids", "saveParent"} =>
                     /\ ~mem[c].processed
                     /\ (Persisted(c) => ~PersistedFlag(c)))
       /\ (f.ph \in {"saveKids", "saveParent"} => ~mem[f.node].processed)
       /\ (f.ph = "saveParent" =>
             \A i \in 1..Len(recs) : Persisted(ch[f.n0 + i]))
       /\ (f.ph = "recurse" =>
             /\ mem[f.node].processed
             /\ Persisted(f.node) /\ PersistedFlag(f.node))

C8_Witness ==
  \E f \in GenFrames :
    /\ f.ph = "recurse" /\ f.k = 2 /\ mem[f.node].type = "Sector"
    /\ mem[f.node].processed
    /\ mem[mem[f.node].children[2]].type = "Sub-sector"

\* The type of node each prompt type is asked for.
SubjectType(pt) ==
  IF pt = "sectors" THEN "Industry"
  ELSE IF pt = "subsectors" THEN "Sector"
  ELSE IF pt = "jtbd_industry" THEN "End User"
  ELSE "Sub-sector"

NoRepeatedCall ==
  \A i, j \in 1..Len(calls) : calls[i] = calls[j] => i = j

\* C9: within one run no node is the subject of two gateway calls for the
\* same transition, a call's subject has the type of its transition (never
\* Job), and an expansion under way or finished has made its one call: one
\* for an Industry or Sector, one per end-user group of a Sub-sector, at most
\* one for the jobs of an End User.
C9_SingleCallPerTransition ==
  (pc \in {"frontier", "fresh", "done"}) =>
    /\ NoRepeatedCall
    /\ \A i \in 1..Len(calls) :
         mem[calls[i].node].type = SubjectType(calls[i].pt)
    /\ \A i \in 1..Len(stack) :
         LET f == stack[i]
         IN /\ (f.fn = "gen" /\ f.ph # "call" => Count(calls, f.node, f.pt) = 1)
            /\ (f.fn = "eut" /\ f.ph # "call" => Count(calls, f.node, f.pt) = 1)
            /\ (f.fn = "eut" /\ f.ph = "saveJobs" =>
                  Count(calls, f.eu, "jtbd_industry") = 1)
            /\ (f.fn = "sub" /\ f.ph = "mark" /\ i = Len(stack) =>
                  /\ Count(calls, f.node, "end_users_provider") = 1
                  /\ Count(calls, f.node, "end_users_customer") = 1)

C9_Witness ==
  /\ pc = "done" /\ variant = "single" /\ hist.crashed /\ skipped # {}
  /\ { calls[i].pt : i \in 1..Len(calls) } = PromptTypes

\* Tree order on paths: an ancestor first, then by the first differing branch.
PathBefore(p, q) ==
  \/ Len(p) < Len(q) /\ SubSeq(q, 1, Len(p)) = p
  \/ \E i \in 1..Len(p) :
       /\ i <= Len(q)
       /\ SubSeq(p, 1, i - 1) = SubSeq(q, 1, i - 1)
       /\ p[i] < q[i]

\* C10: on resume the frontier is exactly the loaded nodes with
\* processed = False, in tree order; a frontier node found processed when its
\* turn comes is skipped, and no node is expanded twice in the run.
C10_FrontierIsUnprocessedPreOrder ==
  /\ (pc = "frontier" /\ fi = 1 /\ stack = << >>) =>
       /\ { frontier[i] : i \in 1..Len(frontier) } =
            { n \in DOMAIN mem : ~mem[n].processed }
       /\ \A i, j \in 1..Len(frontier) :
            i < j => PathBefore(PathTo(mem, frontier[i]), PathTo(mem, frontier[j]))
  /\ (pc \in {"frontier", "done"}) =>
       /\ \A n \in skipped :
            /\ mem[n].processed
            /\ \E i \in 1..(fi - 1) : frontier[i] = n
       /\ (stack = << >> =>
             \A i \in 1..(fi - 1) :
               \/ mem[frontier[i]].processed
               \/ mem[frontier[i]].type \notin {"Industry", "Sector", "Sub-sector"})
       /\ NoRepeatedCall

C10_Witness ==
  /\ pc = "done" /\ skipped # {} /\ Len(frontier) >= 3
  /\ \E n \in skipped : mem[n].type = "Sector" /\ \E i \in 1..Len(calls) : calls[i].node = n

\* C11: every node with processed = False that process_hierarchy visits on a
\* resume is processed whatever its type: the visit starts a generation for
\* the node (a gateway call is attempted for it), for end-user-group and End
\* User nodes too.
C11_UnprocessedVisitedIsProcessed ==
  [][(/\ pc = "frontier" /\ stack = << >>
      /\ fi <= Len(frontier) /\ fi' = fi + 1
      /\ ~mem[frontier[fi]].processed)
     => stack' # << >>]_vars

\* The stored hierarchy e keeps every node of d at its place, with its
\* processed flag if that was set.
RECURSIVE FlagsKept(_, _)
FlagsKept(d, e) ==
  /\ d.processed => e.processed
  /\ Len(d.children) <= Len(e.children)
  /\ \A i \in 1..Len(d.children) : FlagsKept(d.children[i], e.children[i])

\* C12: the processed flag is monotonic.  Over expansions, saves, crashes and
\* resumes, a stored flag that is True stays True (per document, and per place
\* of the stored hierarchy), a node's flag in memory that is True stays True
\* during a run, and a node stored with True is loaded with True.
C12_ProcessedFlagMonotonic ==
  [][/\ \A i \in 1..Len(docs) :
          docs[i].processed =>
            /\ i <= Len(docs')
            /\ docs'[i].node_id = docs[i].node_id
            /\ docs'[i].processed
     /\ (snap # NoSnap => (snap' # NoSnap /\ FlagsKept(snap, snap')))
     /\ (run' = run =>
           \A n \in DOMAIN mem \cap DOMAIN mem' :
             mem[n].processed => mem'[n].processed)
     /\ ((run' # run /\ variant = "multi") =>
           \A n \in DOMAIN mem' :
             (IsStored(n) /\ StoredDoc(n).processed) => mem'[n].processed)
     /\ ((run' # run /\ variant = "single" /\ snap # NoSnap) =>
           FlagsKept(snap, ConvertHierarchyToDict(mem', root')))
    ]_vars

\* A resumed run has written to the store, and a node that was loaded as
\* processed is still processed in memory and in the store.
C12_Witness ==
  /\ run >= 2 /\ pc = "frontier" /\ writes > 0
  /\ \E n \in DOMAIN mem :
       /\ mem[n].processed /\ mem[n].type = "Sector"
       /\ Persisted(n) /\ PersistedFlag(n)
       /\ \E c \in DOMAIN mem : mem[c].parent = n /\ mem[c].processed

IsPrefix(s, t) == Len(s) <= Len(t) /\ SubSeq(t, 1, Len(s)) = s

\* The stored hierarchy e has every child of d at its place, and so on below.
RECURSIVE ChildrenKept(_, _)
ChildrenKept(d, e) ==
  /\ d.name = e.name /\ d.type = e.type
  /\ Len(d.children) <= Len(e.children)
  /\ \A i \in 1..Len(d.children) : ChildrenKept(d.children[i], e.children[i])

\* C13: children are append-only.  No step removes or reorders a child: a
\* node's children before the step are a prefix of its children after it, in
\* memory during a run, in every stored children_ids list, and at every place
\* of the stored hierarchy.
C13_ChildrenAppendOnly ==
  [][/\ \A i \in 1..Len(docs) :
          /\ i <= Len(docs')
          /\ docs'[i].node_id = docs[i].node_id
          /\ IsPrefix(docs[i].children_ids, docs'[i].children_ids)
     /\ (snap # NoSnap => (snap' # NoSnap /\ ChildrenKept(snap, snap')))
     /\ (run' = run =>
           \A n \in DOMAIN mem \cap DOMAIN mem' :
             IsPrefix(mem[n].children, mem'[n].children))
    ]_vars

\* A node that already had a stored child has been given a further one, in a
\* resumed run: the stored list has grown at its end.
C13_Witness ==
  /\ run >= 2 /\ Running /\ writes > 0
  /\ \E n \in DOMAIN mem :
       /\ Len(mem[n].children) >= 2
       /\ Persisted(n) /\ PersistedChildCount(n) >= 2
       /\ \E i \in 1..Len(calls) : calls[i].node = n

\* Every node of type Job of a stored hierarchy dict is processed.
RECURSIVE JobsProcessed(_)
JobsProcessed(d) ==
  /\ d.type = "Job" => d.processed
  /\ \A i \in 1..Len(d.children) : JobsProcessed(d.children[i])

\* C14: every Job node is created with processed = True and is persisted with
\* processed = True from its first save on, so no Job node is ever in the
\* frontier of a resume.
C14_JobsBornProcessed ==
  /\ \A n \in DOMAIN mem : mem[n].type = "Job" => mem[n].processed
  /\ \A i \in 1..Len(docs) : docs[i].type = "Job" => docs[i].processed
  /\ (snap # NoSnap => JobsProcessed(snap))
  /\ \A i \in 1..Len(frontier) : mem[frontier[i]].type # "Job"

\* A resume with work left whose loaded tree holds a persisted Job.
C14_Witness ==
  /\ run >= 2 /\ pc = "frontier" /\ frontier # << >>
  /\ \E n \in DOMAIN mem : mem[n].type = "Job" /\ Persisted(n) /\ PersistedFlag(n)

GroupTypes == {ProviderGroup, CustomerGroup}

\* C15: in the multi-document builder every Sub-sector marked processed has
\* exactly two children, the provider group and then the customer group, each
\* made by its own gateway call (also when the call gave no role), in memory
\* and in its stored document; and every End User is a child of such a group.
C15_SubSectorHasTwoGroups ==
  variant = "multi" =>
    /\ \A n \in DOMAIN mem :
         (mem[n].type = "Sub-sector" /\ mem[n].processed) =>
           /\ Len(mem[n].children) = 2
           /\ mem[mem[n].children[1]].type = ProviderGroup
           /\ mem[mem[n].children[2]].type = CustomerGroup
           /\ ((\E i \in 1..Len(calls) : calls[i].node = n) =>
                 /\ Count(calls, n, "end_users_provider") = 1
                 /\ Count(calls, n, "end_users_customer") = 1)
    /\ \A n \in DOMAIN mem :
         mem[n].type = "End User" =>
           mem[n].parent # NoNode /\ mem[mem[n].parent].type \in GroupTypes
    /\ \A i \in 1..Len(docs) :
         /\ (docs[i].type = "Sub-sector" /\ docs[i].processed) =>
              /\ Len(docs[i].children_ids) = 2
              /\ IsStored(docs[i].children_ids[1])
              /\ StoredDoc(docs[i].children_ids[1]).type = ProviderGroup
              /\ IsStored(docs[i].children_ids[2])
              /\ StoredDoc(docs[i].children_ids[2]).type = CustomerGroup
         /\ docs[i].type = "End User" =>
              /\ IsStored(docs[i].parent_id)
              /\ StoredDoc(docs[i].parent_id).type \in GroupTypes

\* A Sub-sector was marked processed and saved in this run after both calls
\* gave no role: its two groups have no children.
C15_Witness ==
  /\ variant = "multi"
  /\ \E n \in DOMAIN mem :
       /\ mem[n].type = "Sub-sector" /\ mem[n].processed
       /\ IsStored(n) /\ StoredDoc(n).processed
       /\ Count(calls, n, "end_users_provider") = 1
       /\ \A i \in 1..2 : mem[mem[n].children[i]].children = << >>

\* The same with roles: an End User under each of the two groups.
C15_WitnessEndUsers ==
  /\ variant = "multi"
  /\ \E n \in DOMAIN mem :
       /\ mem[n].type = "Sub-sector" /\ mem[n].processed
       /\ IsStored(n) /\ StoredDoc(n).processed
       /\ \A i \in 1..2 : mem[mem[n].children[i]].children # << >>

\* C16: when documents of the industry are persisted but the root query
\* matches none of them, build_hierarchy fails with an error to its caller: it
\* does not start a fresh root.
C16_OrphanDocumentsAreAnError ==
  [][(/\ run' = run + 1
      /\ variant = "multi"
      /\ docs # << >>
      /\ LoadSavedHierarchy(docs) = 0)
     => pc' = "raised"]_vars

UniqueIds(ds) ==
  \A i, j \in 1..Len(ds) : ds[i].node_id = ds[j].node_id => i = j

\* C17: _save_node_to_mongo is insert-or-replace by node_id.  The collection
\* never holds two documents with one node_id; a save of node n leaves one
\* document for n, equal to n's dict at the save (its processed flag and
\* children_ids included), adds a document only if n had none, and leaves
\* every other document as it was.
C17_SaveIsInsertOrReplace ==
  [][variant = "multi" =>
       /\ UniqueIds(docs')
       /\ (docs' # docs =>
             \E n \in DOMAIN mem' :
               /\ FindIdx(docs', n) # 0
               /\ docs'[FindIdx(docs', n)] = NodeDict(mem', n)
               /\ Len(docs') = IF FindIdx(docs, n) # 0 THEN Len(docs)
                               ELSE Len(docs) + 1
               /\ \A i \in 1..Len(docs) :
                    docs[i].node_id # n => docs'[i] = docs[i])
    ]_vars

\* A document inserted as unprocessed and without children was replaced by
\* its node's later save, and is the only one with its node_id.
C17_Witness ==
  /\ variant = "multi" /\ Len(docs) >= 3
  /\ \E i \in 1..Len(docs) :
       /\ docs[i].type = "Sector" /\ docs[i].processed
       /\ docs[i].children_ids # << >>
       /\ \A j \in 1..Len(docs) : docs[j].node_id = docs[i].node_id => j = i

\* C18: after a build_hierarchy run of the multi-document builder that
\* returned normally, reloading the tree from the store reproduces the tree
\* the run returned: every node with its node_id, name, description, type and
\* processed flag, and every node's children in the same order.
C18_ReloadReproducesTree ==
  (variant = "multi" /\ pc = "done") => (LoadedRoot = root /\ Loaded = mem)

\* The same, for runs in which no exception was raised by the store or the
\* prompt builder.
ReloadReproducesTreeNoException ==
  (variant = "multi" /\ pc = "done" /\ ~hist.anyRaise) =>
    (LoadedRoot = root /\ Loaded = mem)

\* ============================================================ pipeline mode
\* process_steps of console_app.py ("console") and of app.py's process_job
\* ("app"), run on one job node with the step list of process_node /
\* process_job, against the DownstreamProcessor that main() constructs, and
\* against a downstream_processor that has all but a few of the step methods
\* and whose methods add children to the node they are given (the processor
\* the tests of process_steps use).
MaxMissing == 2
MaxOdd == 2

Fronts == {"console", "app"}

\* steps of process_node / process_job: the top list, and each step's
\* children_steps.
TopSteps == << "Job Contexts" >>
HasChildrenSteps(step) == step \in {"Job Contexts", "Job Map", "Ideal Job State"}
ChildrenSteps(step) ==
  IF step = "Job Contexts"
    THEN << "Job Map", "Situational Complexity Factors", "Related Jobs",
            "Emotional Jobs", "Social Jobs",
            "Financial Metrics of Purchasing Decision Makers", "Ideal Job State" >>
  ELSE IF step = "Job Map"
    THEN << "Desired Outcomes (success metrics)",
            "Themed Desired Outcomes (Themed Success Metrics)" >>
  ELSE IF step = "Ideal Job State"
    THEN << "Potential Root Causes Preventing the Ideal State" >>
  ELSE << >>

\* method_mapping.STEP_NAME_TO_METHOD, on the steps of the list.
InMethodMapping(step) ==
  step \in {"Desired Outcomes (success metrics)",
            "Themed Desired Outcomes (Themed Success Metrics)",
            "Financial Metrics of Purchasing Decision Makers",
            "Potential Root Causes Preventing the Ideal State"}
StepNameToMethod(step) ==
  IF step = "Desired Outcomes (success metrics)" THEN "process_desired_outcomes"
  ELSE IF step = "Themed Desired Outcomes (Themed Success Metrics)"
    THEN "process_themed_desired_outcomes"
  ELSE IF step = "Financial Metrics of Purchasing Decision Makers"
    THEN "process_financial_metrics"
  ELSE "process_potential_root_causes"

\* f"process_{step_name.lower().replace(' ', '_').replace('(', '').replace(')', '')}"
DynamicMethodName(step) ==
  IF step = "Job Contexts" THEN "process_job_contexts"
  ELSE IF step = "Job Map" THEN "process_job_map"
  ELSE IF step = "Desired Outcomes (success metrics)"
    THEN "process_desired_outcomes_success_metrics"
  ELSE IF step = "Themed Desired Outcomes (Themed Success Metrics)"
    THEN "process_themed_desired_outcomes_themed_success_metrics"
  ELSE IF step = "Situational Complexity Factors"
    THEN "process_situational_complexity_factors"
  ELSE IF step = "Related Jobs" THEN "process_related_jobs"
  ELSE IF step = "Emotional Jobs" THEN "process_emotional_jobs"
  ELSE IF step = "Social Jobs" THEN "process_social_jobs"
  ELSE IF step = "Financial Metrics of Purchasing Decision Makers"
    THEN "process_financial_metrics_of_purchasing_decision_makers"
  ELSE IF step = "Ideal Job State" THEN "process_ideal_job_state"
  ELSE "process_potential_root_causes_preventing_the_ideal_state"

\* The method name process_steps looks up: console_app.py consults the mapping
\* first, app.py always builds the name.
MethodName(f, step) ==
  IF f = "console" /\ InMethodMapping(step) THEN StepNameToMethod(step)
  ELSE DynamicMethodName(step)

RECURSIVE StepsBelow(_)
\* Every step of a list and of the lists nested in it.
StepsBelow(list) ==
  IF list = << >> THEN {}
  ELSE {Head(list)} \cup StepsBelow(ChildrenSteps(Head(list)))
                    \cup StepsBelow(Tail(list))
AllSteps == StepsBelow(TopSteps)
MethodsOf(f) == { MethodName(f, s) : s \in AllSteps }

\* The downstream_processor objects considered: each has every method its
\* process_steps looks up, but for at most MaxMissing of them.
Registries(f) ==
  { MethodsOf(f) \ m : m \in { x \in SUBSET MethodsOf(f) : Cardinality(x) <= MaxMissing } }

\* Faulty variant: the activation starts past the end of its list.
StepsFrameLoopOver(node, list) ==
  [fn |-> "steps", node |-> node, list |-> list, i |-> Len(list) + 1,
   ph |-> "step", child |-> NoNode]

\* Faulty variant: the activation starts at the second entry of its list.
StepsFrameSkipsFirst(node, list) ==
  [fn |-> "steps", node |-> node, list |-> list, i |-> 2, ph |-> "step",
   child |-> NoNode]

\* One activation of process_steps: its current_node, its steps_list, the
\* position of its loop, and (app.py) the new_child to mark after the nested
\* call returned.
StepsFrame(node, list) ==
  [fn |-> "steps", node |-> node, list |-> list, i |-> 1, ph |-> "step",
   child |-> NoNode]

\* Faulty variant: the list is walked from its end.
CurrentStepBackwards == Top.list[Len(Top.list) + 1 - Top.i]

StepsAt(ph) == pc = "steps" /\ stack # << >> /\ Top.ph = ph
InLoop == StepsAt("step") /\ Top.i <= Len(Top.list)
CurrentStep == Top.list[Top.i]

\* Faulty variant: the loop is left where the code says continue.
AfterSkipLeavesLoop(f) == [f EXCEPT !.i = Len(f.list) + 1]

\* continue: on to the next step entry of the same list.
AfterSkip(f) == [f EXCEPT !.i = @ + 1]

\* Faulty variant: the last child is taken whether or not the call added one.
NewChildLastAnyway(m, anchor, n0) ==
  IF Len(m[anchor].children) > 0
  THEN m[anchor].children[Len(m[anchor].children)] ELSE NoNode

\* new_child: current_node.children[-1] if the call added a child (NoNode models
\* the else branch, which logs an error and continues).
NewChild(m, anchor, n0) ==
  IF Len(m[anchor].children) > n0
  THEN m[anchor].children[Len(m[anchor].children)] ELSE NoNode

\* The methods of class DownstreamProcessor, the processor main() constructs.
DownstreamProcessorMethods ==
  {"process_step", "process_job_contexts", "process_job_map"}
ActualProcessor == registry = DownstreamProcessorMethods

StepsInit ==
  /\ front \in Fronts
  /\ registry \in Registries(front) \cup {DownstreamProcessorMethods}
  /\ errors = << >>
  /\ source = << >>
  /\ response = << >>
  /\ parser = "none"
  /\ parsed = << >>
  /\ job_nodes = << >>
  /\ collection_name = "None"
  /\ db = << >>
  /\ outcome = << >>
  /\ accesses = 0
  /\ worker = 0
  /\ parked = << >>
  /\ variant = "none"
  /\ oracle = [pt \in PromptTypes |-> 0]
  /\ pc = "idle"
  /\ stack = << >>
  /\ mem = << >>
  /\ root = NoNode
  /\ frontier = << >>
  /\ fi = 1
  /\ docs = << >>
  /\ snap = NoSnap
  /\ nextId = 1
  /\ run = 0
  /\ faults = 0
  /\ calls = << >>
  /\ writes = 0
  /\ gwFailed = {}
  /\ skipped = {}
  /\ hist = Hist0

\* process_node / process_job: the selected job node, then process_steps on it.
ProcessJob ==
  /\ pc = "idle"
  /\ \E p \in BOOLEAN :
       mem' = Attach(<< >>, 1, NewNode(0, 0, "Job", p, NoNode))
  /\ root' = 1
  /\ nextId' = 2
  /\ stack' = << StepsFrame(1, TopSteps) >>
  /\ pc' = "steps"
  /\ run' = run + 1
  /\ UNCHANGED << mgrVars, workerVars, parseVars, job_nodes, front, registry, errors, variant, oracle, frontier, fi, docs,
                  snap, faults, calls, writes, gwFailed, skipped, hist >>

\* getattr(downstream_processor, method_name, None) is None: the error is
\* logged and the loop continues.
SkipStep ==
  /\ InLoop
  /\ MethodName(front, CurrentStep) \notin registry
  /\ errors' = Append(errors, [kind |-> "no method", step |-> CurrentStep,
                               node |-> Top.node])
  /\ stack' = SetTop(AfterSkip(Top))
  /\ UNCHANGED << mgrVars, workerVars, parseVars, job_nodes, front, registry, variant, oracle, pc, mem, root, frontier, fi,
                  docs, snap, nextId, run, faults, calls, writes, gwFailed,
                  skipped, hist >>

\* What a processing method of the other processors does to the node it is
\* given: after one call of the gateway it adds one child, or (counted in
\* faults) none or two.
HandlerOutcomes == {1} \cup (IF faults < MaxOdd THEN {0, 2} ELSE {})

\* The processing method is called and returns; then new_child is taken, or
\* the step is given up.  A step with children_steps starts the nested
\* process_steps on new_child; app.py marks new_child processed after it.
CallHandler ==
  /\ InLoop
  /\ ~ActualProcessor
  /\ MethodName(front, CurrentStep) \in registry
  /\ \E k \in HandlerOutcomes :
       LET step == CurrentStep
           anchor == Top.node
           n0 == Len(mem[anchor].children)
           recs == [i \in 1..k |-> [name |-> i, description |-> i]]
           m1 == AddChildren(mem, anchor, recs, step, FALSE, nextId)
           child == NewChild(m1, anchor, n0)
       IN /\ nextId' = nextId + k
          /\ faults' = IF k = 1 THEN faults ELSE faults + 1
          /\ calls' = Append(calls, [node |-> anchor,
                                     pt |-> MethodName(front, step),
                                     added |-> k, raised |-> FALSE,
                                     gw |-> 1])
          /\ IF child = NoNode
             THEN /\ mem' = m1
                  /\ errors' = Append(errors, [kind |-> "no child", step |-> step,
                                               node |-> anchor])
                  /\ stack' = SetTop(AfterSkip(Top))
             ELSE /\ errors' = errors
                  /\ IF HasChildrenSteps(step)
                     THEN /\ mem' = m1
                          /\ stack' =
                               SetTop([Top EXCEPT
                                 !.i = @ + 1, !.child = child,
                                 !.ph = IF front = "app" THEN "mark" ELSE "step"])
                               \o << StepsFrame(child, ChildrenSteps(step)) >>
                     ELSE /\ mem' = IF front = "app" THEN MarkProcessed(m1, child)
                                    ELSE m1
                          /\ stack' = SetTop([Top EXCEPT !.i = @ + 1])
  /\ UNCHANGED << mgrVars, workerVars, parseVars, job_nodes, front, registry, variant, oracle, pc, root, frontier, fi, docs,
                  snap, run, writes, gwFailed, skipped, hist >>

\* The processing method raises: nothing in process_steps, process_node or
\* process_job catches it.
HandlerRaises ==
  /\ InLoop
  /\ ~ActualProcessor
  /\ MethodName(front, CurrentStep) \in registry
  /\ faults < MaxOdd
  /\ faults' = faults + 1
  /\ calls' = Append(calls, [node |-> Top.node,
                             pt |-> MethodName(front, CurrentStep),
                             added |-> 0, raised |-> TRUE, gw |-> 0])
  /\ pc' = "raised"
  /\ stack' = << >>
  /\ UNCHANGED << mgrVars, workerVars, parseVars, job_nodes, front, registry, errors, variant, oracle, mem, root, frontier,
                  fi, docs, snap, nextId, run, writes, gwFailed, skipped, hist >>

\* The method is one of class DownstreamProcessor: process_job_contexts(
\* end_user, job, context, n, fidelity, temp) and process_job_map(end_user,
\* job, context, fidelity, temp) take no parameter node and more positional
\* arguments than app.py passes, so the call of process_steps raises TypeError
\* before the body runs: no prompt is built, the gateway is not called, no
\* child is added.
HandlerRejectsArguments ==
  /\ InLoop
  /\ ActualProcessor
  /\ MethodName(front, CurrentStep) \in registry
  /\ calls' = Append(calls, [node |-> Top.node,
                             pt |-> MethodName(front, CurrentStep),
                             added |-> 0, raised |-> TRUE, gw |-> 0])
  /\ pc' = "raised"
  /\ stack' = << >>
  /\ UNCHANGED << mgrVars, workerVars, parseVars, job_nodes, front, registry, errors, variant, oracle, mem, root, frontier,
                  fi, docs, snap, nextId, run, faults, writes, gwFailed, skipped,
                  hist >>

\* app.py: new_child.processed = True after the nested process_steps returned.
MarkNewChild ==
  /\ StepsAt("mark")
  /\ mem' = MarkProcessed(mem, Top.child)
  /\ stack' = SetTop([Top EXCEPT !.ph = "step"])
  /\ UNCHANGED << mgrVars, workerVars, parseVars, job_nodes, front, registry, errors, variant, oracle, pc, root, frontier,
                  fi, docs, snap, nextId, run, faults, calls, writes, gwFailed,
                  skipped, hist >>

\* The loop over steps_list is over: console_app.py marks current_node
\* processed; process_steps returns.
ReturnFromSteps ==
  /\ StepsAt("step") /\ Top.i > Len(Top.list)
  /\ mem' = IF front = "console" THEN MarkProcessed(mem, Top.node) ELSE mem
  /\ stack' = Pop
  /\ UNCHANGED << mgrVars, workerVars, parseVars, job_nodes, front, registry, errors, variant, oracle, pc, root, frontier,
                  fi, docs, snap, nextId, run, faults, calls, writes, gwFailed,
                  skipped, hist >>

\* process_node / process_job after process_steps: the job node is marked
\* processed.
MarkJobProcessed ==
  /\ pc = "steps" /\ stack = << >>
  /\ mem' = MarkProcessed(mem, root)
  /\ pc' = "done"
  /\ UNCHANGED << mgrVars, workerVars, parseVars, job_nodes, front, registry, errors, variant, oracle, stack, root,
                  frontier, fi, docs, snap, nextId, run, faults, calls, writes,
                  gwFailed, skipped, hist >>

StepsNext ==
  \/ ProcessJob
  \/ SkipStep
  \/ CallHandler
  \/ HandlerRaises
  \/ HandlerRejectsArguments
  \/ MarkNewChild
  \/ ReturnFromSteps
  \/ MarkJobProcessed

StepsSpec == StepsInit /\ [][StepsNext]_vars

\* The list a step entry is in, its place there, and the entries after it.
ListOf(step) ==
  IF \E i \in 1..Len(TopSteps) : TopSteps[i] = step THEN TopSteps
  ELSE ChildrenSteps(CHOOSE s \in AllSteps :
                       \E i \in 1..Len(ChildrenSteps(s)) : ChildrenSteps(s)[i] = step)
IndexIn(list, step) == CHOOSE i \in 1..Len(list) : list[i] = step
LaterSiblings(step) ==
  { ListOf(step)[j] : j \in (IndexIn(ListOf(step), step) + 1)..Len(ListOf(step)) }
StepOf(f, method) == CHOOSE s \in AllSteps : MethodName(f, s) = method

Invoked(anchor, step) ==
  \E i \in 1..Len(calls) :
    calls[i].node = anchor /\ calls[i].pt = MethodName(front, step)
Logged(kind, anchor, step) ==
  \E i \in 1..Len(errors) :
    errors[i].kind = kind /\ errors[i].node = anchor /\ errors[i].step = step
\* The loop of process_steps on anchor took up the entry of step.
Reached(anchor, step) == Invoked(anchor, step) \/ Logged("no method", anchor, step)
\* An exception left process_steps only if a processing method raised it.
OnlyHandlersRaise == pc = "raised" => (calls # << >> /\ calls[Len(calls)].raised)
\* Every activation of process_steps on anchor is past the entry of step.
LoopIsPast(anchor, step) ==
  \A i \in 1..Len(stack) :
    stack[i].node = anchor => stack[i].i > IndexIn(stack[i].list, step)

\* C19: in pipeline mode a step for which downstream_processor has no method
\* is skipped with an error logged and without raising: no method is invoked
\* for it, the anchor gets no child from it, the loop goes on, and once
\* process_steps is through every later entry of the same list has been taken
\* up on the same anchor.
C19_MissingMethodIsSkipped ==
  \A e \in 1..Len(errors) :
    errors[e].kind = "no method" =>
      LET step == errors[e].step
          anchor == errors[e].node
      IN /\ MethodName(front, step) \notin registry
         /\ ~Invoked(anchor, step)
         /\ \A c \in DOMAIN mem : mem[c].parent = anchor => mem[c].type # step
         /\ OnlyHandlersRaise
         /\ LoopIsPast(anchor, step)
         /\ (pc = "done" => \A s \in LaterSiblings(step) : Reached(anchor, s))

\* Job Map has no method; the six entries after it were still taken up on the
\* Job Contexts node, the last of them by a call of its method.
C19_Witness ==
  /\ pc = "done"
  /\ \E e \in 1..Len(errors) :
       /\ errors[e].kind = "no method" /\ errors[e].step = "Job Map"
       /\ Invoked(errors[e].node, "Ideal Job State")
       /\ Invoked(errors[e].node, "Related Jobs")

\* C20: when the method of a step entry A that has children_steps returns
\* without a new child under the anchor, the anchor has no child from A, the
\* error is logged, none of the steps nested in A is taken up (no method of
\* theirs is invoked), no exception is raised, the later entries of the list
\* are still taken up on the anchor, and the anchor ends processed.
C20_NoChildAbortsOnlyNestedBranch ==
  \A c \in 1..Len(calls) :
    (calls[c].added = 0 /\ ~calls[c].raised
     /\ HasChildrenSteps(StepOf(front, calls[c].pt))) =>
      LET step == StepOf(front, calls[c].pt)
          anchor == calls[c].node
      IN /\ \A n \in DOMAIN mem : mem[n].parent = anchor => mem[n].type # step
         /\ Logged("no child", anchor, step)
         /\ \A b \in StepsBelow(ChildrenSteps(step)) :
              /\ \A i \in 1..Len(calls) : calls[i].pt # MethodName(front, b)
              /\ \A i \in 1..Len(errors) : errors[i].step # b
         /\ OnlyHandlersRaise
         /\ LoopIsPast(anchor, step)
         /\ (pc = "done" =>
               /\ \A s \in LaterSiblings(step) : Reached(anchor, s)
               /\ mem[anchor].processed)

\* The method of Job Map returned without a new child; the entries after it
\* were run on the Job Contexts node, which ended processed.
C20_Witness ==
  /\ pc = "done"
  /\ \E c \in 1..Len(calls) :
       /\ calls[c].added = 0 /\ StepOf(front, calls[c].pt) = "Job Map"
       /\ Invoked(calls[c].node, "Related Jobs")
       /\ Invoked(calls[c].node, "Ideal Job State")
       /\ mem[calls[c].node].processed

\* The same for Ideal Job State, whose anchor already has children from the
\* entries before it.
C20_WitnessLastEntry ==
  /\ pc = "done"
  /\ \E c \in 1..Len(calls) :
       /\ calls[c].added = 0 /\ StepOf(front, calls[c].pt) = "Ideal Job State"
       /\ mem[calls[c].node].children # << >>
       /\ mem[calls[c].node].processed

\* The children a step entry's method added under anchor.
ChildrenFrom(anchor, step) ==
  SelectSeq(mem[anchor].children, LAMBDA c : mem[c].type = step)

\* C21: when a step's method added several children to the anchor, the nested
\* process_steps of its children_steps runs on the first of the new children:
\* every nested activation of process_steps is on the first child its step
\* added under the anchor of the activation below it.
C21_NestedStepsRunOnFirstNewChild ==
  \A i \in 2..Len(stack) :
    LET node == stack[i].node
    IN node = Head(ChildrenFrom(mem[node].parent, mem[node].type))

\* C23: process_node / process_job on a Job whose processed flag is already
\* True calls no processing method and leaves the Job's subtree as it was:
\* while process_steps is running on such a Job, no method has been invoked
\* and the Job is still the only node.
C23_ProcessedJobIsNotProcessedAgain ==
  (pc = "steps" /\ stack # << >> /\ mem[root].processed) =>
    (calls = << >> /\ Len(mem) = 1 /\ mem[root].children = << >>)

\* C24: one pipeline step run on an anchor by a method of DownstreamProcessor
\* makes exactly one gateway call and creates one child per parsed record
\* under the anchor: the call returns, its one gateway call was made, and
\* (the gateway answering with a record) the anchor has a child of the step.
C24_StepAddsOneChildPerRecord ==
  ActualProcessor =>
    \A c \in 1..Len(calls) :
      /\ ~calls[c].raised
      /\ calls[c].gw = 1
      /\ calls[c].added >= 1
      /\ ChildrenFrom(calls[c].node, StepOf(front, calls[c].pt)) # << >>

\* The steps_list process_steps is given for a node of this type.
EntriesOf(n) ==
  IF mem[n].type = "Job" THEN TopSteps ELSE ChildrenSteps(mem[n].type)

RECURSIVE Under(_, _)
\* n is a, or a node of a's subtree.
Under(n, a) ==
  \/ n = a
  \/ (mem[n].parent # NoNode /\ Under(mem[n].parent, a))

\* process_steps was started on n.
WasAnchor(n) ==
  \/ \E i \in 1..Len(calls) : calls[i].node = n
  \/ \E i \in 1..Len(errors) : errors[i].node = n

\* Every step entry of n's list has been run or skipped, the same holds for
\* every node below n that process_steps was started on, and no activation of
\* process_steps on n or below it is left.
StepsFinished(n) ==
  /\ \A d \in DOMAIN mem :
       (Under(d, n) /\ (d = n \/ WasAnchor(d))) =>
         \A i \in 1..Len(EntriesOf(d)) : Reached(d, EntriesOf(d)[i])
  /\ \A f \in 1..Len(stack) : ~Under(stack[f].node, n)

ChildTypes(n) ==
  [i \in 1..Len(mem[n].children) |-> mem[mem[n].children[i]].type]

\* Every processing method called so far returned having added one child, and
\* no step was skipped.
EveryHandlerAddedOne ==
  /\ errors = << >>
  /\ \A c \in 1..Len(calls) : calls[c].added = 1 /\ ~calls[c].raised

\* C25: when every processing method adds exactly one child to the node it is
\* given, process_node / process_job leave a subtree that mirrors the step
\* lists: the children of every node are one per entry of the node's list, in
\* the order of the list (one under the Job, seven under Job Contexts, two
\* under Job Map, one under Ideal Job State, none elsewhere).
C25_SubtreeMirrorsSteps ==
  (pc = "done" /\ EveryHandlerAddedOne) =>
    \A n \in DOMAIN mem : ChildTypes(n) = EntriesOf(n)

\* A finished run of that kind: the Job and its eleven step nodes.
C25_Witness ==
  /\ pc = "done" /\ EveryHandlerAddedOne
  /\ Len(calls) = 11
  /\ Len(mem) = 12
  /\ Len(mem[root].children) = 1
  /\ \E n \in DOMAIN mem :
       mem[n].type = "Job Contexts" /\ Len(mem[n].children) = 7

\* The step whose children_steps hold this step.
ParentStepOf(step) ==
  CHOOSE p \in AllSteps :
    \E i \in 1..Len(ChildrenSteps(p)) : ChildrenSteps(p)[i] = step

RECURSIVE ChildToward(_, _)
\* The child of a on the path from a down to n (n strictly below a).
ChildToward(n, a) ==
  IF mem[n].parent = a THEN n ELSE ChildToward(mem[n].parent, a)

\* The entry of a's list that the call c belongs to: its own step when it was
\* made on a, the step that made the branch it is in when it was made below a.
BranchStep(c, a) ==
  IF calls[c].node = a THEN StepOf(front, calls[c].pt)
  ELSE mem[ChildToward(calls[c].node, a)].type

\* C26: process_steps is depth-first in the order of the list: on an anchor,
\* the method of an entry and every method of the steps nested in it are
\* called before the method of a later entry of the list is called on that
\* anchor, the nested ones after the method of the entry itself; and a nested
\* method is called on a child that the method of its parent step added under
\* the anchor of that step.
C26_DepthFirstInStepOrder ==
  \A c2 \in 1..Len(calls) :
    LET a == calls[c2].node
        s2 == StepOf(front, calls[c2].pt)
        at(s) == IndexIn(EntriesOf(a), s)
    IN /\ \A c1 \in 1..Len(calls) :
            (c1 # c2 /\ Under(calls[c1].node, a)) =>
              /\ at(BranchStep(c1, a)) < at(s2) => c1 < c2
              /\ at(BranchStep(c1, a)) >= at(s2) => c1 > c2
       /\ s2 \notin { TopSteps[i] : i \in 1..Len(TopSteps) } =>
            /\ mem[a].type = ParentStepOf(s2)
            /\ \E c0 \in 1..(c2 - 1) :
                 /\ calls[c0].node = mem[a].parent
                 /\ StepOf(front, calls[c0].pt) = ParentStepOf(s2)
                 /\ calls[c0].added >= 1 /\ ~calls[c0].raised

\* The two methods nested in Job Map were called on the Job Map node before
\* Situational Complexity Factors was called on the Job Contexts node.
C26_Witness ==
  \E c1, c2 \in 1..Len(calls) :
    /\ c1 < c2
    /\ StepOf(front, calls[c1].pt) = "Themed Desired Outcomes (Themed Success Metrics)"
    /\ StepOf(front, calls[c2].pt) = "Situational Complexity Factors"
    /\ mem[calls[c1].node].type = "Job Map"
    /\ mem[calls[c1].node].parent = calls[c2].node

\* C27: every step of the step lists resolves to a method of
\* downstream_processor before any step is run, so that a step without a
\* method is never met while a job is processed: once process_steps has been
\* started the processor has the method of every step, and no 'No processing
\* method found' error is ever logged.
C27_EveryStepResolvesBeforeRun ==
  pc \in {"steps", "done", "raised"} =>
    /\ \A s \in AllSteps : MethodName(front, s) \in registry
    /\ \A e \in 1..Len(errors) : errors[e].kind # "no method"

\* ================================================================= parsers
\* The response parsers: HierarchyBuilder.parse_response with the patterns of
\* parse_list, parse_roles and parse_jobs, and PromptBuilder's
\* _parse_list_response, applied to responses written as numbered lists.
\* A text is a sequence of characters; a regular expression is matched as
\* re.match does it, by backtracking in the order of the expression.
MaxLines == 3

Digits == {"0", "1", "2", "3", "4", "5", "6", "7", "8", "9"}
\* The characters \s matches and str.strip() removes.
WhiteSpace == {" ", "\n"}

RECURSIVE Numeral(_)
\* str(k), the decimal numeral of k.
Numeral(k) ==
  LET digit == << "0", "1", "2", "3", "4", "5", "6", "7", "8", "9" >>[(k % 10) + 1]
  IN IF k < 10 THEN << digit >> ELSE Append(Numeral(k \div 10), digit)

\* A character class of the expressions: \d, \s, the dot, an escaped or a
\* plain literal.
InClass(c, cls) ==
  IF cls = "\\d" THEN c \in Digits
  ELSE IF cls = "\\s" THEN c \in WhiteSpace
  ELSE IF cls = "." THEN c # "\n"
  ELSE IF cls = "\\." THEN c = "."
  ELSE IF cls = "\\*" THEN c = "*"
  ELSE c = cls

\* The elements of an expression: x, x*, x+, the groups (.+?) and (.+), and
\* the alternation (?:p|q).
One(cls) ==
  [kind |-> "rep", cls |-> cls, min |-> 1, many |-> FALSE, lazy |-> FALSE, grp |-> 0]
Star(cls) ==
  [kind |-> "rep", cls |-> cls, min |-> 0, many |-> TRUE, lazy |-> FALSE, grp |-> 0]
Plus(cls) ==
  [kind |-> "rep", cls |-> cls, min |-> 1, many |-> TRUE, lazy |-> FALSE, grp |-> 0]
Group(n, lazy) ==
  [kind |-> "rep", cls |-> ".", min |-> 1, many |-> TRUE, lazy |-> lazy, grp |-> n]
Alt(p, q) == [kind |-> "alt", first |-> p, second |-> q]

\* parse_list:  ^\d+\.\s*\*\*(.+?)\*\*(?::\s*|)\s*(.+)$
ParseListPattern ==
  << Plus("\\d"), One("\\."), Star("\\s"), One("\\*"), One("\\*"),
     Group(1, TRUE), One("\\*"), One("\\*"),
     Alt(<< One(":"), Star("\\s") >>, << >>), Star("\\s"), Group(2, FALSE) >>
\* parse_roles:  ^\d+\.\s+\*\*(.+?)\*\*:\s+(.+)$
ParseRolesPattern ==
  << Plus("\\d"), One("\\."), Plus("\\s"), One("\\*"), One("\\*"),
     Group(1, TRUE), One("\\*"), One("\\*"), One(":"), Plus("\\s"),
     Group(2, FALSE) >>
\* parse_jobs:  ^\d+\.\s+\*\*(.+?)\*\*\s+-\s+(.+)$
ParseJobsPattern ==
  << Plus("\\d"), One("\\."), Plus("\\s"), One("\\*"), One("\\*"),
     Group(1, TRUE), One("\\*"), One("\\*"), Plus("\\s"), One("-"),
     Plus("\\s"), Group(2, FALSE) >>
\* _parse_list_response, pattern:  ^\s*\d+\.\s*\*\*(.+?)\*\*\s*-\s*(.+)$
ListResponsePattern ==
  << Star("\\s"), Plus("\\d"), One("\\."), Star("\\s"), One("\\*"), One("\\*"),
     Group(1, TRUE), One("\\*"), One("\\*"), Star("\\s"), One("-"),
     Star("\\s"), Group(2, FALSE) >>
\* _parse_list_response, pattern_alt:  ^\d+\.\s*(.+?)\s*-\s*(.+)$
ListResponsePatternAlt ==
  << Plus("\\d"), One("\\."), Star("\\s"), Group(1, TRUE), Star("\\s"),
     One("-"), Star("\\s"), Group(2, FALSE) >>

NoMatch == [ok |-> FALSE, g |-> << << >>, << >> >>]

\* The longest run of characters of e's class that starts at pos.
Run(s, pos, e) ==
  LET cap == IF e.many \/ pos > Len(s) THEN Len(s) + 1 - pos ELSE 1
      runs == { n \in 0..cap : \A k \in pos..(pos + n - 1) : InClass(s[k], e.cls) }
  IN CHOOSE n \in runs : \A m \in runs : m <= n

RECURSIVE MatchAt(_, _, _)
RECURSIVE TryLen(_, _, _, _, _)
\* The first way, in backtracking order, to match the expression pat against
\* s from pos to the end of s ($), with the texts of its groups.
MatchAt(pat, s, pos) ==
  IF pat = << >> THEN [ok |-> pos = Len(s) + 1, g |-> << << >>, << >> >>]
  ELSE LET e == Head(pat)
       IN IF e.kind = "alt"
          THEN LET r1 == MatchAt(e.first \o Tail(pat), s, pos)
               IN IF r1.ok THEN r1 ELSE MatchAt(e.second \o Tail(pat), s, pos)
          ELSE LET hi == Run(s, pos, e)
               IN IF hi < e.min THEN NoMatch
                  ELSE TryLen(pat, s, pos, IF e.lazy THEN e.min ELSE hi, hi)

\* The element at the head of pat takes n characters; a greedy element then
\* gives characters back, a lazy one takes more.
TryLen(pat, s, pos, n, hi) ==
  LET e == Head(pat)
      r == MatchAt(Tail(pat), s, pos + n)
  IN IF r.ok
     THEN IF e.grp > 0
          THEN [r EXCEPT !.g[e.grp] = SubSeq(s, pos, pos + n - 1)]
          ELSE r
     ELSE IF e.lazy
          THEN IF n < hi THEN TryLen(pat, s, pos, n + 1, hi) ELSE NoMatch
          ELSE IF n > e.min THEN TryLen(pat, s, pos, n - 1, hi) ELSE NoMatch

\* regex.match(line)
Match(pattern, line) == MatchAt(pattern, line, 1)

\* str.strip()
Strip(s) ==
  LET idx == { i \in 1..Len(s) : s[i] \notin WhiteSpace }
  IN IF idx = {} THEN << >>
     ELSE SubSeq(s, CHOOSE i \in idx : \A j \in idx : i <= j,
                    CHOOSE i \in idx : \A j \in idx : j <= i)

RECURSIVE Split(_)
\* str.split('\n')
Split(s) ==
  LET nl == { i \in 1..Len(s) : s[i] = "\n" }
  IN IF nl = {} THEN << s >>
     ELSE LET i == CHOOSE x \in nl : \A y \in nl : x <= y
          IN << SubSeq(s, 1, i - 1) >> \o Split(SubSeq(s, i + 1, Len(s)))

\* {key: match.group(i + 1).strip() for i, key in enumerate(keys)}
ParsedItem(keys, m) ==
  [key \in {keys[1], keys[2]} |->
     IF key = keys[1] THEN Strip(m.g[1]) ELSE Strip(m.g[2])]

RECURSIVE ParseLinesStopAtMismatch(_, _, _)
\* Faulty variant: the loop ends at the first line that does not match.
ParseLinesStopAtMismatch(lines, pattern, keys) ==
  IF lines = << >> \/ ~Match(pattern, Head(lines)).ok THEN << >>
  ELSE << ParsedItem(keys, Match(pattern, Head(lines))) >>
         \o ParseLinesStopAtMismatch(Tail(lines), pattern, keys)

RECURSIVE ParseLines(_, _, _)
\* The loop of parse_response: a matching line appends its item, any other
\* line logs a warning.
ParseLines(lines, pattern, keys) ==
  IF lines = << >> THEN << >>
  ELSE LET m == Match(pattern, Head(lines))
       IN (IF m.ok THEN << ParsedItem(keys, m) >> ELSE << >>)
            \o ParseLines(Tail(lines), pattern, keys)

ParseResponse(resp, pattern, keys) == ParseLines(Split(resp), pattern, keys)
ParseList(resp) == ParseResponse(resp, ParseListPattern, << "name", "description" >>)
ParseRoles(resp) == ParseResponse(resp, ParseRolesPattern, << "role", "description" >>)
ParseJobs(resp) == ParseResponse(resp, ParseJobsPattern, << "job", "description" >>)

RECURSIVE ListResponseLines(_)
\* The loop of _parse_list_response: blank lines are passed over; pattern is
\* tried, then pattern_alt; a line neither matches logs a warning.
ListResponseLines(lines) ==
  IF lines = << >> THEN << >>
  ELSE LET line == Head(lines)
           match == Match(ListResponsePattern, line)
           match_alt == Match(ListResponsePatternAlt, line)
           item(m) == [name |-> Strip(m.g[1]), description |-> Strip(m.g[2])]
       IN (IF Strip(line) = << >> THEN << >>
           ELSE IF match.ok THEN << item(match) >>
           ELSE IF match_alt.ok THEN << item(match_alt) >>
           ELSE << >>)
            \o ListResponseLines(Tail(lines))

ParseListResponse(resp) == ListResponseLines(Split(Strip(resp)))

\* ------------------------------------------------------------ the responses
\* The numbered lists the parsers are applied to: a line is a record written
\* in one of the three styles of the tests' responses,
\*   1. **name** - description   1. **name**: description   1. name - description
\* indented or not, or a line that is no list item at all.
Styles == {"bold-dash", "bold-colon", "plain-dash"}
Indents == { << >>, << " ", " " >> }
Names == { << "a" >> }
Descriptions == { << "b" >>, << "b", "-", "c" >> }
OtherLines == { << >>, << " " >>, << "a", " ", "b" >>, << "1", ".", " ", "a" >> }
LineSpecs ==
  [kind : {"record"}, name : Names, description : Descriptions,
   style : Styles, indent : Indents]
  \cup [kind : {"other"}, text : OtherLines]

RenderLine(k, ls) ==
  IF ls.kind = "other" THEN ls.text
  ELSE ls.indent \o Numeral(k) \o << ".", " " >>
       \o (IF ls.style = "plain-dash" THEN ls.name
           ELSE << "*", "*" >> \o ls.name \o << "*", "*" >>)
       \o (IF ls.style = "bold-colon" THEN << ":", " " >> ELSE << " ", "-", " " >>)
       \o ls.description

RECURSIVE JoinLines(_, _)
\* The lines from the k-th on, each numbered by its place, joined by newlines.
JoinLines(lines, k) ==
  IF k > Len(lines) THEN << >>
  ELSE RenderLine(k, lines[k])
       \o (IF k < Len(lines) THEN << "\n" >> ELSE << >>)
       \o JoinLines(lines, k + 1)

\* The response text: the lines, framed by newlines when written as a
\* triple-quoted block.
RenderResponse(src) ==
  IF src.framed THEN << "\n" >> \o JoinLines(src.lines, 1) \o << "\n" >>
  ELSE JoinLines(src.lines, 1)

Sources ==
  [lines : UNION { [1..n -> LineSpecs] : n \in 0..MaxLines }, framed : BOOLEAN]

ParseInit ==
  /\ source \in Sources
  /\ response = RenderResponse(source)
  /\ parser = "none"
  /\ parsed = << >>
  /\ job_nodes = << >>
  /\ collection_name = "None"
  /\ db = << >>
  /\ outcome = << >>
  /\ accesses = 0
  /\ worker = 0
  /\ parked = << >>
  /\ front = "none"
  /\ registry = {}
  /\ errors = << >>
  /\ variant = "none"
  /\ oracle = [pt \in PromptTypes |-> 0]
  /\ pc = "idle"
  /\ stack = << >>
  /\ mem = << >>
  /\ root = NoNode
  /\ frontier = << >>
  /\ fi = 1
  /\ docs = << >>
  /\ snap = NoSnap
  /\ nextId = 1
  /\ run = 0
  /\ faults = 0
  /\ calls = << >>
  /\ writes = 0
  /\ gwFailed = {}
  /\ skipped = {}
  /\ hist = Hist0

builderVars ==
  << variant, oracle, pc, stack, mem, root, frontier, fi, docs, snap, nextId,
     run, faults, calls, writes, gwFailed, skipped, hist, front, registry,
     errors, job_nodes, mgrVars, workerVars >>

\* HierarchyBuilder.parse_list(response)
CallParseList ==
  /\ parser = "none"
  /\ parser' = "parse_list"
  /\ parsed' = ParseList(response)
  /\ UNCHANGED << source, response, builderVars >>

\* HierarchyBuilder.parse_roles(response)
CallParseRoles ==
  /\ parser = "none"
  /\ parser' = "parse_roles"
  /\ parsed' = ParseRoles(response)
  /\ UNCHANGED << source, response, builderVars >>

\* HierarchyBuilder.parse_jobs(response)
CallParseJobs ==
  /\ parser = "none"
  /\ parser' = "parse_jobs"
  /\ parsed' = ParseJobs(response)
  /\ UNCHANGED << source, response, builderVars >>

\* PromptBuilder._parse_list_response(response)
CallParseListResponse ==
  /\ parser = "none"
  /\ parser' = "_parse_list_response"
  /\ parsed' = ParseListResponse(response)
  /\ UNCHANGED << source, response, builderVars >>

ParseNext ==
  \/ CallParseList
  \/ CallParseRoles
  \/ CallParseJobs
  \/ CallParseListResponse

ParseSpec == ParseInit /\ [][ParseNext]_vars

PatternOf(p) ==
  IF p = "parse_list" THEN ParseListPattern
  ELSE IF p = "parse_roles" THEN ParseRolesPattern
  ELSE ParseJobsPattern
KeysOf(p) ==
  IF p = "parse_list" THEN << "name", "description" >>
  ELSE IF p = "parse_roles" THEN << "role", "description" >>
  ELSE << "job", "description" >>

\* C28: parse_response returns, in the order of the input lines, exactly one
\* record per line that matches its pattern, and a line that does not match
\* is dropped without changing what the other lines give: the result has one
\* entry per matching line, the k-th entry is what the k-th matching line
\* gives when parsed alone, and an empty or whitespace-only response gives
\* the empty list.
C28_OneRecordPerMatchingLine ==
  parser \in {"parse_list", "parse_roles", "parse_jobs"} =>
    LET pattern == PatternOf(parser)
        kept == SelectSeq(Split(response), LAMBDA l : Match(pattern, l).ok)
    IN /\ Len(parsed) = Len(kept)
       /\ \A k \in 1..Len(kept) :
            << parsed[k] >> = ParseResponse(kept[k], pattern, KeysOf(parser))
       /\ (Strip(response) = << >> => parsed = << >>)

\* parse_list on three lines, the second one prose: the first and the third
\* line gave the two records.
C28_Witness ==
  /\ parser = "parse_list"
  /\ Len(source.lines) = 3
  /\ source.lines[2] = [kind |-> "other", text |-> << "a", " ", "b" >>]
  /\ source.lines[1].kind = "record" /\ source.lines[3].kind = "record"
  /\ Len(parsed) = 2
  /\ parsed[1].description = << "b" >>
  /\ parsed[2].description = << "b", "-", "c" >>

\* parse_jobs on a response of whitespace only.
C28_WitnessBlank ==
  /\ parser = "parse_jobs"
  /\ response # << >> /\ Strip(response) = << >>
  /\ parsed = << >>

\* The records the lines of a response were written from, in line order.
RecordsOf(lines) ==
  LET recs == SelectSeq(lines, LAMBDA l : l.kind = "record")
  IN [i \in 1..Len(recs) |->
        [name |-> recs[i].name, description |-> recs[i].description]]

\* C29: the list parser tries bold name and dash, then bold name and colon,
\* then plain name and dash on every line, so that a line written in any of
\* the three styles, indented or not, gives one record whose name and
\* description are the record's, without separator and bold markers:
\* _parse_list_response returns the records the lines were written from.
C29_ThreeStylesGiveTheRecord ==
  parser = "_parse_list_response" => parsed = RecordsOf(source.lines)

\* A numbered list as a renderer writes it: records only, all in one style,
\* no indentation.
CanonicalList(src) ==
  /\ src.lines # << >>
  /\ \A i \in 1..Len(src.lines) :
       /\ src.lines[i].kind = "record"
       /\ src.lines[i].indent = << >>
       /\ src.lines[i].style = src.lines[1].style

\* C30: for each of the three styles and every list of records, a parser of
\* name/description lists returns, from the numbered list rendered from the
\* records in that style, the same records in the same order.
C30_ParseOfRenderedRecords ==
  (parser \in {"parse_list", "_parse_list_response"} /\ CanonicalList(source)) =>
    parsed = RecordsOf(source.lines)

\* C31: when build_hierarchy has returned, on a fresh build or on a resume,
\* job_nodes holds every node of type Job of the returned tree and no node of
\* another type.
C31_JobNodesAreTheJobs ==
  pc = "done" =>
    { job_nodes[i] : i \in 1..Len(job_nodes) }
      = { n \in DOMAIN mem : mem[n].type = "Job" }

----------------------------------------------------------------------------
\* MongoDBManager (mongo_manager.py): a thin wrapper around one database whose
\* operations act on the collection named by self.collection_name.

MaxOps == 3

NotSetMessage == "ValueError: Collection name is not set."

\* The collection names the repository uses, and the names a caller may pass
\* to set_collection; None is the name after construction.
CollectionNames == {"jtbd_hierarchy", "jtbd_hierarchy3"}
PassedNames == CollectionNames \cup {""}

\* Faulty variant: the name is taken as set whatever it is.
CollectionNameIsSetAlways(name) == TRUE

\* The negation of "not self.collection_name": None and "" are both not set.
CollectionNameIsSet(name) == name \notin {"None", ""}

\* A document matches a query when it has every field of the query with the
\* queried value.
Matches(d, q) == \A f \in DOMAIN q : f \in DOMAIN d /\ d[f] = q[f]

\* find_one: the first matching document's index, or 0.
FindOne(ds, q) ==
  IF \E i \in 1..Len(ds) : Matches(ds[i], q)
  THEN CHOOSE i \in 1..Len(ds) :
         Matches(ds[i], q) /\ \A j \in 1..(i - 1) : ~Matches(ds[j], q)
  ELSE 0

\* update_one with {"$set": new_values}: the first match gets the new values.
SetFields(d, new) ==
  [f \in DOMAIN d \cup DOMAIN new |-> IF f \in DOMAIN new THEN new[f] ELSE d[f]]
UpdateOne(ds, q, new) ==
  IF FindOne(ds, q) = 0 THEN ds
  ELSE [ds EXCEPT ![FindOne(ds, q)] = SetFields(@, new)]

\* delete_one: the first match is removed.
DeleteOne(ds, q) ==
  IF FindOne(ds, q) = 0 THEN ds
  ELSE [i \in 1..(Len(ds) - 1) |-> IF i < FindOne(ds, q) THEN ds[i] ELSE ds[i + 1]]

\* insert_one: the document is stored under a fresh _id.
InsertOne(ds, entry, id) == Append(ds, SetFields(entry, [_id |-> id]))

MgrEntries == [name : 1..2, processed : {FALSE}]
MgrQueries == [name : 1..2]
MgrNewValues == [processed : {TRUE}]

Outcome(op, raised, value) ==
  [seq |-> IF outcome = << >> THEN 1 ELSE outcome.seq + 1,
   op |-> op, raised |-> raised, value |-> value]
Calls == IF outcome = << >> THEN 0 ELSE outcome.seq

otherVars ==
  << variant, oracle, pc, stack, mem, root, frontier, fi, docs, snap, nextId,
     run, faults, calls, writes, gwFailed, skipped, hist, front, registry,
     errors, job_nodes, workerVars, parseVars >>

MgrInit ==
  /\ variant = "multi"
  /\ oracle = << >>
  /\ pc = "manager"
  /\ stack = << >>
  /\ mem = << >>
  /\ root = NoNode
  /\ frontier = << >>
  /\ fi = 0
  /\ docs = << >>
  /\ snap = NoSnap
  /\ nextId = 1
  /\ run = 0
  /\ faults = 0
  /\ calls = << >>
  /\ writes = 0
  /\ gwFailed = FALSE
  /\ skipped = {}
  /\ hist = Hist0
  /\ front = << >>
  /\ registry = {}
  /\ errors = << >>
  /\ source = << >>
  /\ response = << >>
  /\ parser = "none"
  /\ parsed = << >>
  /\ job_nodes = << >>
  /\ collection_name = "None"
  /\ db = [c \in CollectionNames |-> << >>]
  /\ outcome = << >>
  /\ accesses = 0
  /\ worker = 0
  /\ parked = << >>

\* One call of an operation: the test of the name, then the access.
Operation(op, value, ds) ==
  /\ pc = "manager"
  /\ Calls < MaxOps
  /\ IF ~CollectionNameIsSet(collection_name)
     THEN /\ outcome' = Outcome(op, NotSetMessage, << >>)
          /\ UNCHANGED << db, accesses >>
     ELSE /\ outcome' = Outcome(op, "", value)
          /\ db' = [db EXCEPT ![collection_name] = ds]
          /\ accesses' = accesses + 1
  /\ UNCHANGED << collection_name, otherVars >>

Coll == IF collection_name \in DOMAIN db THEN db[collection_name] ELSE << >>

SetCollection ==
  /\ pc = "manager"
  /\ \E name \in PassedNames : collection_name' = name
  /\ UNCHANGED << db, outcome, accesses, otherVars >>

CallInsertEntry ==
  \E entry \in MgrEntries :
    Operation("insert_entry", Calls + 1, InsertOne(Coll, entry, Calls + 1))

CallFindEntry ==
  \E q \in MgrQueries :
    Operation("find_entry",
              IF FindOne(Coll, q) = 0 THEN "None" ELSE Coll[FindOne(Coll, q)],
              Coll)

CallUpdateEntry ==
  \E q \in MgrQueries, new \in MgrNewValues :
    Operation("update_entry", IF FindOne(Coll, q) = 0 THEN 0 ELSE 1,
              UpdateOne(Coll, q, new))

CallDeleteEntry ==
  \E q \in MgrQueries :
    Operation("delete_entry", IF FindOne(Coll, q) = 0 THEN 0 ELSE 1,
              DeleteOne(Coll, q))

CallGetAllEntries == Operation("get_all_entries", Coll, Coll)

MgrNext ==
  \/ SetCollection
  \/ CallInsertEntry
  \/ CallFindEntry
  \/ CallUpdateEntry
  \/ CallDeleteEntry
  \/ CallGetAllEntries

MgrSpec == MgrInit /\ [][MgrNext]_vars

MgrOps ==
  {"insert_entry", "find_entry", "update_entry", "delete_entry",
   "get_all_entries"}

\* C32: an operation called while no collection name is set raises
\* ValueError("Collection name is not set.") and leaves the database
\* untouched; called after set_collection has given a name, it does not raise
\* and is carried out on the database.
C32_NoCollectionNoAccess ==
  [][ Calls' = Calls + 1 =>
        /\ outcome'.op \in MgrOps
        /\ IF collection_name \in CollectionNames
           THEN outcome'.raised = "" /\ accesses' = accesses + 1
           ELSE /\ outcome'.raised = NotSetMessage
                /\ db' = db
                /\ accesses' = accesses ]_vars

\* Reached: an operation raised and touched nothing, then a name was set and
\* a later operation stored a document.
C32_Witness ==
  /\ outcome # << >>
  /\ outcome.seq = 2
  /\ outcome.op = "insert_entry"
  /\ outcome.raised = ""
  /\ accesses = 1
  /\ Len(db[collection_name]) = 1

----------------------------------------------------------------------------
\* Two workers on sibling subtrees.  The Industry node has been expanded into
\* two Sectors and saved; each Sector is claimed by one worker, which runs
\* _process_node on it.  The workers share the store and the supply of node
\* ids, and their steps interleave in every order.

WorkersTree(o) ==
  MarkProcessed(
    AddChildren(Attach(<< >>, 1, NewNode(0, 0, "Industry", FALSE, NoNode)), 1,
                Records(o, "sectors", FALSE), "Sector", FALSE, 2),
    1)

WorkersInit ==
  /\ variant = "multi"
  /\ oracle \in { o \in Oracles : o["sectors"] = 2 }
  /\ pc = "workers"
  /\ mem = WorkersTree(oracle)
  /\ root = 1
  /\ stack = ProcessNode(mem, mem[root].children[1])
  /\ parked = ProcessNode(mem, mem[root].children[2])
  /\ worker = 1
  /\ frontier = << >>
  /\ fi = 1
  /\ docs = SaveNodeToMongo(SaveNodeToMongo(SaveNodeToMongo(<< >>, mem, 2), mem, 3),
                            mem, 1)
  /\ snap = NoSnap
  /\ nextId = 4
  /\ run = 1
  /\ faults = MaxFaults
  /\ calls = << >>
  /\ writes = 0
  /\ gwFailed = {}
  /\ skipped = {}
  /\ hist = Hist0
  /\ front = "none"
  /\ registry = {}
  /\ errors = << >>
  /\ source = << >>
  /\ response = << >>
  /\ parser = "none"
  /\ parsed = << >>
  /\ job_nodes = << >>
  /\ collection_name = "None"
  /\ db = << >>
  /\ outcome = << >>
  /\ accesses = 0

\* Phases whose step is a store operation.
StorePhases ==
  {"saveKids", "saveParent", "mark", "saveGroup", "mkEU", "saveJobs", "euDone",
   "groupDone"}

\* The scheduler takes the running worker off, before a store operation or
\* when it has returned, and puts the other one on.
WorkerSwitch ==
  /\ pc = "workers"
  /\ parked # << >>
  /\ IF stack = << >> THEN TRUE ELSE Top.ph \in StorePhases
  /\ worker' = 3 - worker
  /\ stack' = parked
  /\ parked' = stack
  /\ UNCHANGED << mgrVars, parseVars, job_nodes, front, registry, errors,
                  variant, oracle, pc, mem, root, frontier, fi, docs, snap,
                  nextId, run, faults, calls, writes, gwFailed, skipped, hist >>

\* Both workers have returned from _process_node.
WorkersJoin ==
  /\ pc = "workers"
  /\ stack = << >>
  /\ parked = << >>
  /\ pc' = "joined"
  /\ UNCHANGED << mgrVars, workerVars, parseVars, job_nodes, front, registry,
                  errors, variant, oracle, stack, mem, root, frontier, fi, docs,
                  snap, nextId, run, faults, calls, writes, gwFailed, skipped,
                  hist >>

WorkersNext ==
  \/ GenerateChildren
  \/ SaveChildren
  \/ MarkParentProcessed
  \/ ProcessChildren
  \/ ProcessEndUsers
  \/ MarkSubSectorProcessed
  \/ GenerateEndUsers
  \/ SaveGroup
  \/ CreateEndUser
  \/ GenerateJobs
  \/ SaveJob
  \/ MarkEndUserProcessed
  \/ MarkGroupProcessed
  \/ WorkerSwitch
  \/ WorkersJoin

WorkersSpec == WorkersInit /\ [][WorkersNext]_vars

\* The Sector worker w has claimed, and whether node n lies in the subtree of a.
Claimed(w) == mem[root].children[w]
RECURSIVE InSubtreeOf(_, _, _)
InSubtreeOf(m, n, a) ==
  n = a \/ (m[n].parent # NoNode /\ InSubtreeOf(m, m[n].parent, a))

\* C33: every document a worker inserts or changes belongs to a node of the
\* subtree it has claimed, so the two workers write disjoint sets of documents;
\* and whatever the order of their steps, the tree stored when both have
\* returned is the tree the two expansions give when run one after the other.
C33_WorkersWriteApartAndAgree ==
  [][ /\ pc = "workers" =>
           \A i \in 1..Len(docs') :
             (i > Len(docs) \/ docs'[i] # docs[i]) =>
               InSubtreeOf(mem', docs'[i].node_id, Claimed(worker))
      /\ (pc = "workers" /\ stack = << >> /\ parked = << >>) =>
           /\ LoadedRoot # NoNode
           /\ Shape(Loaded, LoadedRoot) = Expected(oracle)
           /\ Cardinality(DOMAIN Loaded) = Len(docs) ]_vars

\* Reached: both workers have returned, and their documents alternate in the
\* store.
C33_Witness ==
  /\ pc = "joined"
  /\ \E i, j, k, l \in 4..Len(docs) :
       /\ i < j /\ j < k /\ k < l
       /\ InSubtreeOf(mem, docs[i].node_id, Claimed(1))
       /\ InSubtreeOf(mem, docs[j].node_id, Claimed(2))
       /\ InSubtreeOf(mem, docs[k].node_id, Claimed(1))
       /\ InSubtreeOf(mem, docs[l].node_id, Claimed(2))

\* C34: when build_hierarchy has returned normally, on a fresh build or on a
\* resume after a crash, every node of the returned tree is processed, so the
\* next resume finds no unprocessed node.
C34_ReturnedTreeIsComplete ==
  pc = "done" => /\ AllProcessed
                 /\ Unprocessed(mem, root) = << >>

\* C35: in the multi-document store a document with processed = False has an
\* empty children_ids list after every write, and a write that gives a
\* document its first children_ids stores it with processed = True, the
\* document being new or stored with processed = False until then.
C35_UnprocessedDocumentHasNoChildren ==
  [][ variant = "multi" =>
        \A i \in 1..Len(docs') :
          /\ ~docs'[i].processed => docs'[i].children_ids = << >>
          /\ ( /\ docs'[i].children_ids # << >>
               /\ (i > Len(docs) \/ docs[i].children_ids = << >>) )
             => /\ docs'[i].processed
                /\ (i > Len(docs) \/ ~docs[i].processed) ]_vars

\* Reached: a node has children in memory, some of them stored, while its own
\* document still says processed = False and lists no child; another document
\* lists its children and is processed.
C35_Witness ==
  /\ variant = "multi"
  /\ Running
  /\ \E i, j \in 1..Len(docs) :
       /\ ~docs[i].processed
       /\ docs[i].children_ids = << >>
       /\ docs[i].node_id \in DOMAIN mem
       /\ mem[docs[i].node_id].children # << >>
       /\ IsStored(mem[docs[i].node_id].children[1])
       /\ docs[j].processed
       /\ docs[j].children_ids # << >>

\* The node ids of ids were all given out before the crash, or all after it.
OneRound(ids) ==
  \/ \A i \in 1..Len(ids) : ids[i] < hist.crashNextId
  \/ \A i \in 1..Len(ids) : ids[i] >= hist.crashNextId

\* C36: in the multi-document builder, when build_hierarchy has returned after
\* a crash and a resume, the children of every node of the tree, and the
\* children_ids of every document, come from one generation round: none of
\* them mixes nodes created before the crash with nodes created after it.
C36_ChildrenFromOneRound ==
  (variant = "multi" /\ pc = "done" /\ hist.crashed) =>
    /\ \A n \in DOMAIN mem : OneRound(mem[n].children)
    /\ \A i \in 1..Len(docs) : OneRound(docs[i].children_ids)

\* Reached: the resume has returned; a node of the tree has children created
\* after the crash while the store still holds a document created before the
\* crash that names this node as its parent.
C36_Witness ==
  /\ variant = "multi"
  /\ pc = "done"
  /\ hist.crashed
  /\ \E n \in DOMAIN mem, i \in 1..Len(docs) :
       /\ docs[i].parent_id = n
       /\ docs[i].node_id < hist.crashNextId
       /\ docs[i].node_id \notin DOMAIN mem
       /\ mem[n].children # << >>
       /\ \A j \in 1..Len(mem[n].children) : mem[n].children[j] >= hist.crashNextId

\* A tree shape without the Jobs.
RECURSIVE StripJobs(_)
StripJobs(t) ==
  [name |-> t.name, type |-> t.type, processed |-> t.processed,
   children |-> IF t.type = "End User" THEN << >>
                ELSE [i \in 1..Len(t.children) |-> StripJobs(t.children[i])]]

InProcessJobs == Running /\ stack # << >> /\ Top.ph \in {"jobsCall", "saveJobs"}

\* C37: an exception raised inside _process_jobs does not leave it: the step
\* keeps build_hierarchy running in the same call of
\* _generate_and_process_end_user_type; and the fresh build in which it
\* happened returns, the gateway having answered every call, a tree that has
\* for every Sub-sector both groups with every End User of the gateway's
\* answers, all of them processed.
C37_JobsExceptionIsContained ==
  [][ /\ (InProcessJobs /\ hist'.anyRaise /\ ~hist.anyRaise) =>
           /\ pc' = pc
           /\ Len(stack') = Len(stack)
           /\ stack'[Len(stack')].eu = Top.eu
      /\ (pc = "done" /\ run = 1 /\ hist.anyRaise /\ ~hist.anyGwFail) =>
           StripJobs(Shape(mem, root)) = StripJobs(Expected(oracle)) ]_vars

\* Reached: the fresh build has returned after an exception in _process_jobs;
\* the End User it hit has no Job, a later End User has its Jobs.
C37_Witness ==
  /\ pc = "done"
  /\ run = 1
  /\ hist.anyRaise
  /\ \E e, f \in DOMAIN mem :
       /\ mem[e].type = "End User"
       /\ mem[f].type = "End User"
       /\ e < f
       /\ mem[e].children = << >>
       /\ mem[f].children # << >>
       /\ mem[f].processed

----------------------------------------------------------------------------
\* Termination.  The builder is one synchronous process: as long as it is not
\* killed it takes its next step, so its steps are weakly fair; crashes and
\* exceptions are the environment's and need not happen.

BuilderStep ==
  \/ ProcessHierarchy
  \/ FinalSave
  \/ GenerateChildren
  \/ SaveChildren
  \/ MarkParentProcessed
  \/ ProcessChildren
  \/ ProcessEndUsers
  \/ MarkSubSectorProcessed
  \/ GenerateEndUsers
  \/ SaveGroup
  \/ CreateEndUser
  \/ GenerateJobs
  \/ SaveJob
  \/ MarkEndUserProcessed
  \/ MarkGroupProcessed

FairSpec == Init /\ [][Next]_vars /\ WF_vars(BuilderStep)

RECURSIVE Depth(_, _)
Depth(m, n) == IF m[n].parent = NoNode THEN 0 ELSE 1 + Depth(m, m[n].parent)

\* The node types of a level, the root being level 0.
LevelTypes(d) ==
  IF d = 0 THEN {"Industry"}
  ELSE IF d = 1 THEN {"Sector"}
  ELSE IF d = 2 THEN {"Sub-sector"}
  ELSE IF d = 3 THEN {ProviderGroup, CustomerGroup}
  ELSE IF d = 4 THEN {"End User"}
  ELSE IF d = 5 THEN {"Job"}
  ELSE {}

Levelled(m) == \A n \in DOMAIN m : m[n].type \in LevelTypes(Depth(m, n))

\* C38: a fresh build_hierarchy run ends (it returns, or it is ended by an
\* exception or a crash), and the tree of a fresh build has, at every moment
\* and when it is returned, every node at depth at most 5 with the type of its
\* level: Industry, Sector, Sub-sector, end-user group, End User, Job.
C38_FreshBuildTerminatesLevelled ==
  /\ (pc = "fresh") ~> (pc \in {"done", "crashed", "raised"})
  /\ []((pc \in {"fresh", "done"} /\ run = 1) => Levelled(mem))

\* Reached: the fresh build has returned a tree with a Job at depth 5.
C38_Witness ==
  /\ pc = "done"
  /\ run = 1
  /\ ~hist.anyRaise /\ ~hist.anyGwFail
  /\ \E n \in DOMAIN mem : mem[n].type = "Job" /\ Depth(mem, n) = 5

----------------------------------------------------------------------------
\* mongo_db_conversion_1doc2multi.py: the monolithic document of an industry,
\* as the single-document builder saves it, is converted into one document per
\* node in the collection the multi-document builder resumes from.

MaxConversions == 2

SourceCollection == "jtbd_hierarchy"
TargetCollection == "jtbd_hierarchy3"
ConvIndustry == "Finance"

\* The hierarchy dict of _convert_hierarchy_to_dict for a finished tree: the
\* keys name, description, processed, type and children.
RECURSIVE HierarchyDict(_)
HierarchyDict(t) ==
  [name |-> t.name, description |-> t.name, processed |-> t.processed,
   type |-> t.type,
   children |-> [i \in 1..Len(t.children) |-> HierarchyDict(t.children[i])]]

\* The document _save_current_hierarchy stores for the industry.
MonolithicDocument(o) ==
  [industry |-> ConvIndustry, hierarchy |-> HierarchyDict(Expected(o))]

\* A document of the industry as _save_node_to_mongo stores it.
BuilderDocument ==
  [_id |-> 1, node_id |-> 1, industry |-> ConvIndustry, name |-> 0,
   description |-> 0, processed |-> FALSE, type |-> "Industry",
   parent_id |-> NoNode, children_ids |-> << >>]

\* dict.get(key, default)
Get(d, key, default) == IF key \in DOMAIN d THEN d[key] ELSE default

\* delete_many: every matching document is removed.
DeleteMany(ds, q) == SelectSeq(ds, LAMBDA d : ~Matches(d, q))

\* create_node_documents: the node's document is inserted with a fresh
\* node_id and no children_ids, then the children's, then its children_ids are
\* set if it has a child.  next: the first unused id.
RECURSIVE CreateNodeDocuments(_, _, _, _), CreateChildDocuments(_, _, _, _, _, _)
CreateNodeDocuments(ds, d, parent, id) ==
  LET node_document ==
        [node_id |-> id, name |-> d.name,
         description |-> Get(d, "description", ""),
         processed |-> Get(d, "processed", FALSE),
         type |-> Get(d, "type", ""),
         industry |-> Get(d, "industry", ""),
         parent_id |-> parent, children_ids |-> << >>]
      r == CreateChildDocuments(InsertOne(ds, node_document, id),
                                Get(d, "children", << >>), id, id + 1, 1, << >>)
  IN [ds |-> IF r.ids # << >>
             THEN UpdateOne(r.ds, [_id |-> id], [children_ids |-> r.ids])
             ELSE r.ds,
      next |-> r.next]
CreateChildDocuments(ds, kids, parent, next, i, ids) ==
  IF i > Len(kids) THEN [ds |-> ds, next |-> next, ids |-> ids]
  ELSE LET c == CreateNodeDocuments(ds, kids[i], parent, next)
       IN CreateChildDocuments(c.ds, kids, parent, c.next, i + 1,
                               Append(ids, next))

ConvInit ==
  /\ variant = "multi"
  /\ oracle \in Oracles
  /\ pc = "conversion"
  /\ db \in { [c \in CollectionNames |-> IF c = SourceCollection THEN s ELSE t] :
                s \in {<< >>, << MonolithicDocument(oracle) >>},
                t \in {<< >>, << BuilderDocument >>} }
  /\ nextId = 2
  /\ run = 0
  /\ outcome = << >>
  /\ stack = << >>
  /\ mem = << >>
  /\ root = NoNode
  /\ frontier = << >>
  /\ fi = 1
  /\ docs = << >>
  /\ snap = NoSnap
  /\ faults = 0
  /\ calls = << >>
  /\ writes = 0
  /\ gwFailed = {}
  /\ skipped = {}
  /\ hist = Hist0
  /\ front = "none"
  /\ registry = {}
  /\ errors = << >>
  /\ source = << >>
  /\ response = << >>
  /\ parser = "none"
  /\ parsed = << >>
  /\ job_nodes = << >>
  /\ collection_name = "None"
  /\ accesses = 0
  /\ worker = 0
  /\ parked = << >>

convOtherVars ==
  << variant, oracle, pc, stack, mem, root, frontier, fi, docs, snap, faults,
     calls, writes, gwFailed, skipped, hist, front, registry, errors,
     job_nodes, collection_name, accesses, workerVars, parseVars >>

\* convert_monolithic_to_hierarchical for the industry.
ConvertMonolithicToHierarchical ==
  /\ pc = "conversion"
  /\ run < MaxConversions
  /\ run' = run + 1
  /\ LET k == FindOne(db[SourceCollection], [industry |-> ConvIndustry])
     IN IF k = 0 THEN UNCHANGED << db, nextId >>
        ELSE LET cleared == DeleteMany(db[TargetCollection],
                                       [industry |-> ConvIndustry])
                 c == CreateNodeDocuments(cleared,
                                          db[SourceCollection][k].hierarchy,
                                          NoNode, nextId)
             IN /\ db' = [db EXCEPT ![TargetCollection] = c.ds]
                /\ nextId' = c.next
  /\ UNCHANGED << outcome, convOtherVars >>

\* The resume query of the multi-document builder, _load_saved_hierarchy, on
\* the target collection: the index of the document it finds, or 0.
LoadSavedHierarchyAfterConversion ==
  /\ pc = "conversion"
  /\ run >= 1
  /\ IF outcome = << >> THEN TRUE ELSE outcome.seq # run
  /\ outcome' = [seq |-> run, op |-> "_load_saved_hierarchy", raised |-> "",
                 value |-> FindOne(db[TargetCollection],
                                   [industry |-> ConvIndustry,
                                    type |-> "Industry"])]
  /\ UNCHANGED << db, nextId, run, convOtherVars >>

ConvNext ==
  \/ ConvertMonolithicToHierarchical
  \/ LoadSavedHierarchyAfterConversion

ConvSpec == ConvInit /\ [][ConvNext]_vars

\* A node document without its identifiers.
WithoutIds(d) ==
  [name |-> d.name, description |-> d.description, processed |-> d.processed,
   type |-> d.type, children |-> Len(d.children_ids)]
ConvertedOnce ==
  CreateNodeDocuments(<< >>, db[SourceCollection][1].hierarchy, NoNode, 1).ds

\* C39: after one or more conversions of the industry's monolithic document,
\* the target collection holds the node documents of one conversion and no
\* other document of the industry, and the builder's resume query for the
\* industry finds the converted root.
C39_ConversionIsIdempotentAndResumable ==
  (pc = "conversion" /\ run >= 1 /\ db[SourceCollection] # << >>) =>
    LET target == db[TargetCollection]
        found == FindOne(target, [industry |-> ConvIndustry, type |-> "Industry"])
    IN /\ [i \in 1..Len(target) |-> WithoutIds(target[i])]
            = [i \in 1..Len(ConvertedOnce) |-> WithoutIds(ConvertedOnce[i])]
       /\ found # 0
       /\ target[found].parent_id = NoNode
       /\ (outcome # << >> /\ outcome.seq = run) => outcome.value = found

====
